---------------------------- MODULE Spec2Model ----------------------------
(***************************************************************************)
(* A model of the bbcode-rs pipeline: tokenizer.rs (tokenize,              *)
(* tokenize_until_close), parser.rs (Parser::parse_tokens and helpers),    *)
(* tags.rs (the static registry) and renderer.rs (Renderer::render and the *)
(* validators).                                                            *)
(*                                                                         *)
(* A Rust &str is modelled as a sequence of byte cells.  The first cell of *)
(* a character holds the character, every further byte of a multi-byte     *)
(* character is the cell Cont.  Offsets are 0-based byte offsets, as in    *)
(* the source, and a slice whose ends are not character boundaries aborts  *)
(* the program, as it does in Rust.                                        *)
(***************************************************************************)
EXTENDS Integers, Sequences, FiniteSets, TLC

VARIABLES input, config, pc, tokens, i, stack, doc, output, custom_tags

vars == <<input, config, pc, tokens, i, stack, doc, output, custom_tags>>

-----------------------------------------------------------------------------
(* Characters *)

Cont == "cont"

\* U+0130 LATIN CAPITAL LETTER I WITH DOT ABOVE: 2 bytes, lower-cases to
\* "i" followed by U+0307 (1 + 2 bytes).
CapIDot == "U+0130"
CombDot == "U+0307"
\* U+212A KELVIN SIGN: 3 bytes, lower-cases to "k" (1 byte).
Kelvin == "U+212A"
\* U+0001, an ASCII control character.
Ctl == "U+0001"
LF == "U+000A"
CR == "U+000D"

UpperLetters ==
  <<"A","B","C","D","E","F","G","H","I","J","K","L","M",
    "N","O","P","Q","R","S","T","U","V","W","X","Y","Z">>
LowerLetters ==
  <<"a","b","c","d","e","f","g","h","i","j","k","l","m",
    "n","o","p","q","r","s","t","u","v","w","x","y","z">>
Digits == {"0","1","2","3","4","5","6","7","8","9"}

Range(f) == {f[k] : k \in DOMAIN f}

is_ascii_alphabetic(c) == c \in Range(UpperLetters) \cup Range(LowerLetters)
is_ascii_alphanumeric(c) == is_ascii_alphabetic(c) \/ c \in Digits
\* char::is_alphanumeric is the Unicode property: the non-ASCII letters count.
is_alphanumeric(c) == is_ascii_alphanumeric(c) \/ c \in {CapIDot, Kelvin}
is_whitespace(c) == c \in {" ", LF, CR}
is_ascii_control(c) == c \in {Ctl, LF, CR}

to_ascii_lowercase_char(c) ==
  IF c \in Range(UpperLetters)
    THEN LowerLetters[CHOOSE k \in DOMAIN UpperLetters : UpperLetters[k] = c]
    ELSE c

to_ascii_lowercase(s) == [k \in DOMAIN s |-> to_ascii_lowercase_char(s[k])]

eq_ignore_ascii_case(a, b) == to_ascii_lowercase(a) = to_ascii_lowercase(b)

-----------------------------------------------------------------------------
(* Strings as byte cells *)

SetMin(S) == CHOOSE m \in S : \A x \in S : m <= x

\* &s[a..b]
Slice(s, a, b) == SubSeq(s, a + 1, b)

\* str::is_char_boundary
is_char_boundary(s, p) ==
  p = 0 \/ p = Len(s) \/ (p > 0 /\ p < Len(s) /\ s[p + 1] # Cont)

\* Whether &s[a..b] is a valid slice; Rust aborts when it is not.
SliceOk(s, a, b) ==
  a <= b /\ b <= Len(s) /\ is_char_boundary(s, a) /\ is_char_boundary(s, b)

\* char::len_utf8 of the character that starts at offset p
len_utf8(s, p) ==
  LET ends == {q \in (p + 1)..Len(s) : is_char_boundary(s, q)}
  IN  SetMin(ends) - p

starts_with(s, off, pat) ==
  off + Len(pat) <= Len(s) /\ Slice(s, off, off + Len(pat)) = pat

\* str::find(pattern) on &s[from..], as an absolute offset; -1 for None
FindSub(s, from, pat) ==
  LET hits == {p \in from..(Len(s) - Len(pat)) : Slice(s, p, p + Len(pat)) = pat}
  IN  IF hits = {} THEN -1 ELSE SetMin(hits)

\* str::find(|c| P(c)) on &s[from..], or the end of the string:
\* find(..).unwrap_or(len)
FindCharOrEnd(s, from, P(_)) ==
  LET hits == {p \in from..(Len(s) - 1) : s[p + 1] # Cont /\ P(s[p + 1])}
  IN  IF hits = {} THEN Len(s) ELSE SetMin(hits)

contains_char(s, c) == \E k \in DOMAIN s : s[k] = c
contains(s, pat) == FindSub(s, 0, pat) # -1

\* str::to_lowercase of one character, as byte cells
to_lowercase_char(c) ==
  IF c = CapIDot THEN <<"i", CombDot, Cont>>
  ELSE IF c = Kelvin THEN <<"k">>
  ELSE IF c = CombDot THEN <<CombDot, Cont>>
  ELSE <<to_ascii_lowercase_char(c)>>

\* str::to_lowercase: the Unicode lower-casing, which may change the length
RECURSIVE to_lowercase(_)
to_lowercase(s) ==
  IF s = <<>> THEN <<>>
  ELSE LET n == len_utf8(s, 0)
       IN  to_lowercase_char(s[1]) \o to_lowercase(Slice(s, n, Len(s)))

-----------------------------------------------------------------------------
(* tokenizer.rs *)

None == [some |-> FALSE, val |-> <<>>]
Some(v) == [some |-> TRUE, val |-> v]

Backtrack == [ok |-> FALSE]
Ok(tok, end) == [ok |-> TRUE, tok |-> tok, end |-> end]

Tok(type, name, arg) == [type |-> type, name |-> name, arg |-> arg]

NotTagNameChar(c) == ~is_alphanumeric(c) /\ c # "*" /\ c # "-"

\* The quoted value of parse_open_tag: delimited(q, take_till(0.., q), q)
ParseQuoted(s, off, q) ==
  LET close == FindSub(s, off + 1, <<q>>)
  IN  IF close = -1 THEN Backtrack
      ELSE Ok(Some(Slice(s, off + 1, close)), close + 1)

parse_open_tag(s, off) ==
  IF ~starts_with(s, off, <<"[">>) THEN Backtrack
  ELSE IF starts_with(s, off + 1, <<"/">>) THEN Backtrack
  ELSE
    LET ns == off + 1
        name_end == FindCharOrEnd(s, ns, NotTagNameChar)
    IN  IF name_end = ns THEN Backtrack
        ELSE
          LET name == Slice(s, ns, name_end)
              a == IF starts_with(s, name_end, <<"=">>)
                   THEN IF starts_with(s, name_end + 1, <<"\"">>)
                          THEN ParseQuoted(s, name_end + 1, "\"")
                        ELSE IF starts_with(s, name_end + 1, <<"'">>)
                          THEN ParseQuoted(s, name_end + 1, "'")
                        ELSE LET value_end ==
                                   IF FindSub(s, name_end + 1, <<"]">>) = -1
                                     THEN Len(s)
                                     ELSE FindSub(s, name_end + 1, <<"]">>)
                             IN  IF value_end = name_end + 1 THEN Backtrack
                                 ELSE Ok(Some(Slice(s, name_end + 1, value_end)),
                                         value_end)
                   ELSE Ok(None, name_end)
          IN  IF ~a.ok THEN Backtrack
              ELSE IF ~starts_with(s, a.end, <<"]">>) THEN Backtrack
              ELSE Ok(Tok("OpenTag", name, a.tok), a.end + 1)

parse_close_tag(s, off) ==
  IF ~starts_with(s, off, <<"[", "/">>) THEN Backtrack
  ELSE
    LET ns == off + 2
        name_end == FindCharOrEnd(s, ns, NotTagNameChar)
    IN  IF name_end = ns THEN Backtrack
        ELSE IF ~starts_with(s, name_end, <<"]">>) THEN Backtrack
        ELSE Ok(Tok("CloseTag", Slice(s, ns, name_end), None), name_end + 1)

UrlStop(c) == is_whitespace(c) \/ c \in {"[", "]", "<", ">"}

HttpPrefix == <<"h","t","t","p",":","/","/">>
HttpsPrefix == <<"h","t","t","p","s",":","/","/">>

UrlPunct == {".", ",", ")", "!", "?", ":", ";"}

\* url.trim_end_matches(..): the end of &s[off..url_end] without its trailing
\* punctuation
UrlTrimmedEnd(s, off, url_end) ==
  SetMin({q \in off..url_end : \A j \in (q + 1)..url_end : s[j] \in UrlPunct})

\* parse_url consumes the input up to url_end; the Token::Url it returns
\* holds the slice url, trimmed of trailing punctuation
parse_url(s, off) ==
  IF ~starts_with(s, off, HttpPrefix) /\ ~starts_with(s, off, HttpsPrefix)
    THEN Backtrack
  ELSE
    LET protocol_len == IF starts_with(s, off, HttpsPrefix) THEN 8 ELSE 7
        url_end == FindCharOrEnd(s, off + protocol_len, UrlStop)
    IN  [ok |-> TRUE, tok |-> Tok("Url", <<>>, None), end |-> url_end,
         url |-> Slice(s, off, UrlTrimmedEnd(s, off, url_end))]

parse_linebreak(s, off) ==
  IF starts_with(s, off, <<CR, LF>>) THEN Ok(Tok("LineBreak", <<>>, None), off + 2)
  ELSE IF starts_with(s, off, <<LF>>) THEN Ok(Tok("LineBreak", <<>>, None), off + 1)
  ELSE IF starts_with(s, off, <<CR>>) THEN Ok(Tok("LineBreak", <<>>, None), off + 1)
  ELSE Backtrack

TextStop(c) == c \in {"[", LF, CR, "h"}

parse_text(s, off) ==
  LET end == FindCharOrEnd(s, off, TextStop)
  IN  IF end = off THEN Backtrack
      ELSE Ok(Tok("Text", <<>>, None), end)

\* alt((parse_close_tag, parse_open_tag, parse_url, parse_linebreak,
\* parse_text)): the first parser that succeeds
ParseAlt(s, off) ==
  IF parse_close_tag(s, off).ok THEN parse_close_tag(s, off)
  ELSE IF parse_open_tag(s, off).ok THEN parse_open_tag(s, off)
  ELSE IF parse_url(s, off).ok THEN parse_url(s, off)
  ELSE IF parse_linebreak(s, off).ok THEN parse_linebreak(s, off)
  ELSE parse_text(s, off)

\* A parse_token that keeps the slice parse_url returns
parse_token_keep_url(s, off) ==
  LET r == ParseAlt(s, off)
  IN  IF ~r.ok THEN Backtrack
      ELSE Ok([type |-> r.tok.type, name |-> r.tok.name, arg |-> r.tok.arg,
               off |-> off,
               len |-> IF r.tok.type = "Url" THEN Len(r.url) ELSE r.end - off],
              r.end)

\* parse_token: the token of the alt, its raw slice set to the bytes the alt
\* consumed (the slice parse_url trimmed is overwritten too)
parse_token(s, off) ==
  LET r == ParseAlt(s, off)
  IN  IF ~r.ok THEN Backtrack
      ELSE Ok([type |-> r.tok.type, name |-> r.tok.name, arg |-> r.tok.arg,
               off |-> off, len |-> r.end - off], r.end)

TextTok(off, len) ==
  [type |-> "Text", name |-> <<>>, arg |-> None, off |-> off, len |-> len]

\* The loop of tokenize: one token per round, and on an error one character
\* of text, which extends the previous token when that is an adjacent Text.
RECURSIVE TokenizeLoop(_, _, _)
TokenizeLoop(s, off, toks) ==
  IF off >= Len(s) THEN toks
  ELSE
    LET r == parse_token(s, off)
    IN  IF r.ok
          THEN TokenizeLoop(s, r.end,
                 IF r.tok.type = "Text" /\ r.tok.len = 0 THEN toks
                 ELSE Append(toks, r.tok))
        ELSE
          LET char_len == len_utf8(s, off)
              n == Len(toks)
          IN  IF n > 0 /\ toks[n].type = "Text"
                   /\ toks[n].off + toks[n].len = off
                THEN TokenizeLoop(s, off + char_len,
                       [toks EXCEPT ![n].len = (off + char_len) - toks[n].off])
              ELSE TokenizeLoop(s, off + char_len,
                     Append(toks, TextTok(off, char_len)))

\* The token sequence left as the loop of tokenize built it
keep_text_tokens(toks, result) == result \o toks

RECURSIVE merge_text_tokens(_, _)
merge_text_tokens(toks, result) ==
  IF toks = <<>> THEN result
  ELSE
    LET token == Head(toks)
        n == Len(result)
    IN  IF token.type = "Text" /\ n > 0 /\ result[n].type = "Text"
             /\ result[n].off + result[n].len = token.off
          THEN merge_text_tokens(Tail(toks),
                 [result EXCEPT ![n].len = (token.off + token.len) - result[n].off])
        ELSE merge_text_tokens(Tail(toks), Append(result, token))

tokenize(s) == merge_text_tokens(TokenizeLoop(s, 0, <<>>), <<>>)

\* Token::as_raw
as_raw(s, tok) == Slice(s, tok.off, tok.off + tok.len)

\* tokenize_until_close: the close tag is searched in the Unicode
\* lower-casing of the input, and the offset found there is used to slice
\* the input itself.  panic: a slice that Rust refuses.
tokenize_until_close(s, tag_name) ==
  LET close_pattern_lower == <<"[", "/">> \o to_lowercase(tag_name) \o <<"]">>
      input_lower == to_lowercase(s)
      pos == FindSub(input_lower, 0, close_pattern_lower)
      close_tag_len == Len(close_pattern_lower)
  IN  IF pos # -1
        THEN IF SliceOk(s, 0, pos) /\ SliceOk(s, pos, pos + close_tag_len)
               THEN [panic |-> FALSE,
                     content |-> Slice(s, 0, pos),
                     close_tag |-> Slice(s, pos, pos + close_tag_len),
                     remaining |-> Slice(s, pos + close_tag_len, Len(s))]
               ELSE [panic |-> TRUE, content |-> <<>>, close_tag |-> <<>>,
                     remaining |-> <<>>]
      ELSE [panic |-> FALSE, content |-> s, close_tag |-> <<>>,
            remaining |-> <<>>]

-----------------------------------------------------------------------------
(* tags.rs: the static tag definitions and the registry *)

TAG_BOLD ==
  [name |-> <<"b">>,
   aliases |-> {<<"b","o","l","d">>},
   tag_type |-> "Inline",
   option_required |-> FALSE,
   forbidden_ancestors |-> {},
   required_parents |-> {}]

TAG_ITALIC ==
  [name |-> <<"i">>,
   aliases |-> {<<"i","t","a","l","i","c">>},
   tag_type |-> "Inline",
   option_required |-> FALSE,
   forbidden_ancestors |-> {},
   required_parents |-> {}]

TAG_UNDERLINE ==
  [name |-> <<"u">>,
   aliases |-> {<<"u","n","d","e","r","l","i","n","e">>},
   tag_type |-> "Inline",
   option_required |-> FALSE,
   forbidden_ancestors |-> {},
   required_parents |-> {}]

TAG_STRIKETHROUGH ==
  [name |-> <<"s">>,
   aliases |-> {<<"s","t","r","i","k","e">>, <<"s","t","r","i","k","e","t","h","r","o","u","g","h">>},
   tag_type |-> "Inline",
   option_required |-> FALSE,
   forbidden_ancestors |-> {},
   required_parents |-> {}]

TAG_COLOR ==
  [name |-> <<"c","o","l","o","r">>,
   aliases |-> {<<"c","o","l","o","u","r">>},
   tag_type |-> "Inline",
   option_required |-> TRUE,
   forbidden_ancestors |-> {},
   required_parents |-> {}]

TAG_FONT ==
  [name |-> <<"f","o","n","t">>,
   aliases |-> {},
   tag_type |-> "Inline",
   option_required |-> TRUE,
   forbidden_ancestors |-> {},
   required_parents |-> {}]

TAG_SIZE ==
  [name |-> <<"s","i","z","e">>,
   aliases |-> {},
   tag_type |-> "Inline",
   option_required |-> TRUE,
   forbidden_ancestors |-> {},
   required_parents |-> {}]

TAG_URL ==
  [name |-> <<"u","r","l">>,
   aliases |-> {<<"l","i","n","k">>},
   tag_type |-> "Inline",
   option_required |-> FALSE,
   forbidden_ancestors |-> {<<"u","r","l">>, <<"e","m","a","i","l">>},
   required_parents |-> {}]

TAG_EMAIL ==
  [name |-> <<"e","m","a","i","l">>,
   aliases |-> {<<"m","a","i","l">>},
   tag_type |-> "Inline",
   option_required |-> FALSE,
   forbidden_ancestors |-> {<<"u","r","l">>, <<"e","m","a","i","l">>},
   required_parents |-> {}]

TAG_IMG ==
  [name |-> <<"i","m","g">>,
   aliases |-> {<<"i","m","a","g","e">>},
   tag_type |-> "Void",
   option_required |-> FALSE,
   forbidden_ancestors |-> {},
   required_parents |-> {}]

TAG_QUOTE ==
  [name |-> <<"q","u","o","t","e">>,
   aliases |-> {},
   tag_type |-> "Block",
   option_required |-> FALSE,
   forbidden_ancestors |-> {},
   required_parents |-> {}]

TAG_CODE ==
  [name |-> <<"c","o","d","e">>,
   aliases |-> {},
   tag_type |-> "Verbatim",
   option_required |-> FALSE,
   forbidden_ancestors |-> {},
   required_parents |-> {}]

TAG_ICODE ==
  [name |-> <<"i","c","o","d","e">>,
   aliases |-> {<<"c">>, <<"i","n","l","i","n","e">>},
   tag_type |-> "Verbatim",
   option_required |-> FALSE,
   forbidden_ancestors |-> {},
   required_parents |-> {}]

TAG_PHP ==
  [name |-> <<"p","h","p">>,
   aliases |-> {},
   tag_type |-> "Verbatim",
   option_required |-> FALSE,
   forbidden_ancestors |-> {},
   required_parents |-> {}]

TAG_HTML ==
  [name |-> <<"h","t","m","l">>,
   aliases |-> {},
   tag_type |-> "Verbatim",
   option_required |-> FALSE,
   forbidden_ancestors |-> {},
   required_parents |-> {}]

TAG_PLAIN ==
  [name |-> <<"p","l","a","i","n">>,
   aliases |-> {<<"n","o","p","a","r","s","e">>, <<"n","o","b","b","c">>},
   tag_type |-> "Verbatim",
   option_required |-> FALSE,
   forbidden_ancestors |-> {},
   required_parents |-> {}]

TAG_LIST ==
  [name |-> <<"l","i","s","t">>,
   aliases |-> {},
   tag_type |-> "Block",
   option_required |-> FALSE,
   forbidden_ancestors |-> {},
   required_parents |-> {}]

TAG_LIST_ITEM ==
  [name |-> <<"*">>,
   aliases |-> {<<"l","i">>},
   tag_type |-> "SelfClosing",
   option_required |-> FALSE,
   forbidden_ancestors |-> {},
   required_parents |-> {<<"l","i","s","t">>}]

TAG_HR ==
  [name |-> <<"h","r">>,
   aliases |-> {},
   tag_type |-> "SelfClosing",
   option_required |-> FALSE,
   forbidden_ancestors |-> {},
   required_parents |-> {}]

TAG_BR ==
  [name |-> <<"b","r">>,
   aliases |-> {},
   tag_type |-> "SelfClosing",
   option_required |-> FALSE,
   forbidden_ancestors |-> {},
   required_parents |-> {}]

TAG_LEFT ==
  [name |-> <<"l","e","f","t">>,
   aliases |-> {},
   tag_type |-> "Block",
   option_required |-> FALSE,
   forbidden_ancestors |-> {},
   required_parents |-> {}]

TAG_CENTER ==
  [name |-> <<"c","e","n","t","e","r">>,
   aliases |-> {},
   tag_type |-> "Block",
   option_required |-> FALSE,
   forbidden_ancestors |-> {},
   required_parents |-> {}]

TAG_RIGHT ==
  [name |-> <<"r","i","g","h","t">>,
   aliases |-> {},
   tag_type |-> "Block",
   option_required |-> FALSE,
   forbidden_ancestors |-> {},
   required_parents |-> {}]

TAG_JUSTIFY ==
  [name |-> <<"j","u","s","t","i","f","y">>,
   aliases |-> {},
   tag_type |-> "Block",
   option_required |-> FALSE,
   forbidden_ancestors |-> {},
   required_parents |-> {}]

TAG_INDENT ==
  [name |-> <<"i","n","d","e","n","t">>,
   aliases |-> {},
   tag_type |-> "Block",
   option_required |-> FALSE,
   forbidden_ancestors |-> {},
   required_parents |-> {}]

TAG_HEADING ==
  [name |-> <<"h","e","a","d","i","n","g">>,
   aliases |-> {<<"h">>},
   tag_type |-> "Block",
   option_required |-> FALSE,
   forbidden_ancestors |-> {},
   required_parents |-> {}]

TAG_SPOILER ==
  [name |-> <<"s","p","o","i","l","e","r">>,
   aliases |-> {},
   tag_type |-> "Block",
   option_required |-> FALSE,
   forbidden_ancestors |-> {},
   required_parents |-> {}]

TAG_ISPOILER ==
  [name |-> <<"i","s","p","o","i","l","e","r">>,
   aliases |-> {},
   tag_type |-> "Inline",
   option_required |-> FALSE,
   forbidden_ancestors |-> {},
   required_parents |-> {}]

TAG_USER ==
  [name |-> <<"u","s","e","r">>,
   aliases |-> {<<"m","e","m","b","e","r">>},
   tag_type |-> "Inline",
   option_required |-> TRUE,
   forbidden_ancestors |-> {},
   required_parents |-> {}]

TAG_SUB ==
  [name |-> <<"s","u","b">>,
   aliases |-> {},
   tag_type |-> "Inline",
   option_required |-> FALSE,
   forbidden_ancestors |-> {},
   required_parents |-> {}]

TAG_SUP ==
  [name |-> <<"s","u","p">>,
   aliases |-> {},
   tag_type |-> "Inline",
   option_required |-> FALSE,
   forbidden_ancestors |-> {},
   required_parents |-> {}]

TAG_TABLE ==
  [name |-> <<"t","a","b","l","e">>,
   aliases |-> {},
   tag_type |-> "Block",
   option_required |-> FALSE,
   forbidden_ancestors |-> {},
   required_parents |-> {}]

TAG_TR ==
  [name |-> <<"t","r">>,
   aliases |-> {},
   tag_type |-> "Block",
   option_required |-> FALSE,
   forbidden_ancestors |-> {},
   required_parents |-> {<<"t","a","b","l","e">>}]

TAG_TH ==
  [name |-> <<"t","h">>,
   aliases |-> {},
   tag_type |-> "Block",
   option_required |-> FALSE,
   forbidden_ancestors |-> {},
   required_parents |-> {<<"t","r">>}]

TAG_TD ==
  [name |-> <<"t","d">>,
   aliases |-> {},
   tag_type |-> "Block",
   option_required |-> FALSE,
   forbidden_ancestors |-> {},
   required_parents |-> {<<"t","r">>}]

STANDARD_TAGS ==
  {TAG_BOLD, TAG_ITALIC, TAG_UNDERLINE, TAG_STRIKETHROUGH,
   TAG_COLOR, TAG_FONT, TAG_SIZE, TAG_URL,
   TAG_EMAIL, TAG_IMG, TAG_QUOTE, TAG_CODE,
   TAG_ICODE, TAG_PHP, TAG_HTML, TAG_PLAIN,
   TAG_LIST, TAG_LIST_ITEM, TAG_HR, TAG_BR,
   TAG_LEFT, TAG_CENTER, TAG_RIGHT, TAG_JUSTIFY,
   TAG_INDENT, TAG_HEADING, TAG_SPOILER, TAG_ISPOILER,
   TAG_USER, TAG_SUB, TAG_SUP, TAG_TABLE,
   TAG_TR, TAG_TH, TAG_TD}

NoTag == [name |-> <<>>]

\* TagRegistry::resolve on the registry of TagRegistry::new: the definition
\* registered under the lower-cased name or alias.
resolve(name) ==
  LET lower == to_ascii_lowercase(name)
      hits == {t \in STANDARD_TAGS : lower = t.name \/ lower \in t.aliases}
  IN  IF hits = {} THEN NoTag ELSE CHOOSE t \in hits : TRUE

is_self_closing(t) == t.tag_type = "SelfClosing"
is_verbatim(t) == t.tag_type = "Verbatim"

\* ResolvedTag::is_ancestor_forbidden
is_ancestor_forbidden(t, ancestor) ==
  \E a \in t.forbidden_ancestors : eq_ignore_ascii_case(a, ancestor)

\* ResolvedTag::has_required_parent, on the names of the stack
has_required_parent(t, names) ==
  t.required_parents = {}
  \/ \E k \in DOMAIN names :
       \E r \in t.required_parents : eq_ignore_ascii_case(r, names[k])

-----------------------------------------------------------------------------
(* ast.rs: nodes *)

TextNode(t) == [kind |-> "Text", text |-> t]
LineBreakNode == [kind |-> "LineBreak"]
AutoUrlNode(u) == [kind |-> "AutoUrl", text |-> u]

OptNone == [kind |-> "None"]
OptScalar(v) == [kind |-> "Scalar", val |-> v]
OptMap(m) == [kind |-> "Map", map |-> m]

\* The TagNode built at parser.rs:190 and parser.rs:376
NewTagNode(lower_name, name, option, raw) ==
  [kind |-> "Tag", name |-> lower_name, raw_name |-> name, option |-> option,
   children |-> <<>>, closed |-> FALSE, raw_open |-> raw, raw_close |-> <<>>,
   broken |-> FALSE]

mark_closed(tag) == [tag EXCEPT !.closed = TRUE]

push_child(tag, node) == [tag EXCEPT !.children = Append(@, node)]

\* TagNode::inner_text
RECURSIVE inner_text(_)
RECURSIVE InnerTextOf(_)
InnerTextOf(children) ==
  IF children = <<>> THEN <<>>
  ELSE LET c == Head(children)
       IN  (CASE c.kind = "Text" -> c.text
              [] c.kind = "LineBreak" -> <<LF>>
              [] c.kind = "AutoUrl" -> c.text
              [] c.kind = "Tag" -> inner_text(c))
           \o InnerTextOf(Tail(children))
inner_text(tag) == InnerTextOf(tag.children)

-----------------------------------------------------------------------------
(* parser.rs *)

\* const MAX_NESTING_DEPTH
MAX_NESTING_DEPTH == 50

\* The depth argument Parser::parse passes to parse_tokens
AmbientDepth == 0

NotWhitespace(c) == ~is_whitespace(c)
IsSpace(c) == c = " "
IsEq(c) == c = "="
NotAsciiAlphabetic(c) == ~is_ascii_alphabetic(c)

trim_start(s) == Slice(s, FindCharOrEnd(s, 0, NotWhitespace), Len(s))

trim_end(s) ==
  LET keep == {p \in 1..Len(s) : s[p] # Cont /\ ~is_whitespace(s[p])}
  IN  IF keep = {} THEN <<>>
      ELSE LET last == CHOOSE m \in keep : \A x \in keep : x <= m
           IN  Slice(s, 0, (last - 1) + len_utf8(s, last - 1))

trim(s) == trim_end(trim_start(s))

\* Parser::looks_like_keyed_options
looks_like_keyed_options(s) ==
  LET pos == FindCharOrEnd(s, 0, NotAsciiAlphabetic)
  IN  pos < Len(s) /\ pos > 0 /\ s[pos + 1] = "="

\* HashMap::insert on a map kept as a set of <<key, value>> pairs
MapInsert(m, k, v) == {e \in m : e[1] # k} \cup {<<k, v>>}
MapHas(m, k) == \E e \in m : e[1] = k
MapGet(m, k) == (CHOOSE e \in m : e[1] = k)[2]

\* Parser::parse_keyed_options: [some |-> FALSE] is None (the ? operator
\* and the empty map)
RECURSIVE KeyedLoop(_, _)
KeyedLoop(remaining, map) ==
  IF remaining = <<>>
    THEN IF map = {} THEN [some |-> FALSE, map |-> {}]
         ELSE [some |-> TRUE, map |-> map]
  ELSE
    LET eq_pos == FindCharOrEnd(remaining, 0, IsEq)
    IN  IF eq_pos = Len(remaining) THEN [some |-> FALSE, map |-> {}]
        ELSE
          LET key == trim(Slice(remaining, 0, eq_pos))
              rem == trim_start(Slice(remaining, eq_pos + 1, Len(remaining)))
              quoted == starts_with(rem, 0, <<"\"">>) \/ starts_with(rem, 0, <<"'">>)
              qend == IF quoted THEN FindSub(rem, 1, <<rem[1]>>) ELSE -1
              end == FindCharOrEnd(rem, 0, IsSpace)
          IN  IF quoted /\ qend = -1 THEN [some |-> FALSE, map |-> {}]
              ELSE IF quoted
                THEN KeyedLoop(trim_start(Slice(rem, qend + 1, Len(rem))),
                               MapInsert(map, key, Slice(rem, 1, qend)))
              ELSE KeyedLoop(trim_start(Slice(rem, end, Len(rem))),
                             MapInsert(map, key, Slice(rem, 0, end)))

parse_keyed_options(s) == KeyedLoop(trim(s), {})

\* Parser::parse_option_resolved
parse_option_resolved(arg) ==
  IF ~arg.some THEN OptNone
  ELSE IF arg.val = <<>> THEN OptNone
  ELSE IF looks_like_keyed_options(arg.val) /\ parse_keyed_options(arg.val).some
    THEN OptMap(parse_keyed_options(arg.val).map)
  ELSE OptScalar(arg.val)

\* Parser::push_to_stack_or_doc
push_to_stack_or_doc(st, d, node) ==
  IF Len(st) > 0
    THEN [stack |-> [st EXCEPT ![Len(st)] = push_child(@, node)], doc |-> d]
    ELSE [stack |-> st, doc |-> Append(d, node)]

\* Parser::check_ancestors_resolved
check_ancestors_resolved(st, resolved) ==
  \A k \in DOMAIN st : ~is_ancestor_forbidden(resolved, st[k].name)

\* Parser::check_required_parents_resolved
check_required_parents_resolved(st, resolved) ==
  has_required_parent(resolved, [k \in DOMAIN st |-> st[k].name])

\* A search that takes the innermost open tag whatever its name
find_innermost_open_tag(st, name) == Len(st)

\* Parser::find_matching_open_tag: rposition, 0 for None (positions from 1)
find_matching_open_tag(st, name) ==
  LET hits == {k \in DOMAIN st : eq_ignore_ascii_case(st[k].name, name)}
  IN  IF hits = {} THEN 0 ELSE CHOOSE m \in hits : \A x \in hits : x <= m

\* Parser::find_token_end
find_token_end(tok) == tok.off + tok.len

\* Parser::skip_tokens_until_pos: the index (from 1) of the first token at or
\* after start whose raw slice starts at or after target_pos
skip_tokens_until_pos(toks, start, target_pos) ==
  LET hits == {k \in start..Len(toks) : toks[k].off >= target_pos}
  IN  IF hits = {} THEN Len(toks) + 1 ELSE SetMin(hits)

\* The loop of Parser::parse_single_tag over tokens[k0 + consumed]
RECURSIVE SingleTagLoop(_, _, _, _, _, _)
SingleTagLoop(s, toks, k0, consumed, nesting, tag_node) ==
  IF ~(k0 + consumed <= Len(toks) /\ nesting > 0)
    THEN [node |-> tag_node, consumed |-> consumed]
  ELSE
    LET t == toks[k0 + consumed]
        same == eq_ignore_ascii_case(t.name, tag_node.name)
    IN  IF t.type = "OpenTag" /\ same
          THEN SingleTagLoop(s, toks, k0, consumed + 1, nesting + 1, tag_node)
        ELSE IF t.type = "CloseTag" /\ same
          THEN IF nesting - 1 = 0
                 THEN [node |-> mark_closed([tag_node EXCEPT !.raw_close = as_raw(s, t)]),
                       consumed |-> consumed + 1]
               ELSE SingleTagLoop(s, toks, k0, consumed + 1, nesting - 1, tag_node)
        ELSE IF t.type = "Text"
          THEN SingleTagLoop(s, toks, k0, consumed + 1, nesting,
                             push_child(tag_node, TextNode(as_raw(s, t))))
        ELSE IF t.type = "LineBreak"
          THEN SingleTagLoop(s, toks, k0, consumed + 1, nesting,
                             push_child(tag_node, LineBreakNode))
        ELSE IF t.type = "Url"
          THEN SingleTagLoop(s, toks, k0, consumed + 1, nesting,
                             push_child(tag_node, AutoUrlNode(as_raw(s, t))))
        ELSE SingleTagLoop(s, toks, k0, consumed + 1, nesting, tag_node)

\* Parser::parse_single_tag on tokens[k0..] (k0 from 1): some = FALSE is None
parse_single_tag(s, toks, k0) ==
  IF k0 > Len(toks) \/ toks[k0].type # "OpenTag" \/ resolve(toks[k0].name) = NoTag
    THEN [some |-> FALSE]
  ELSE
    LET t == toks[k0]
        r == SingleTagLoop(s, toks, k0, 1, 1,
               NewTagNode(to_ascii_lowercase(t.name), t.name,
                          parse_option_resolved(t.arg), as_raw(s, t)))
    IN  [some |-> TRUE, node |-> r.node, consumed |-> r.consumed]

\* The list-item loop of parse_tokens (parser.rs:207-245): the index of the
\* token the loop stops at and the item with its children
RECURSIVE ListItemLoop(_, _, _, _)
ListItemLoop(s, toks, k, tag_node) ==
  IF k > Len(toks) THEN [i |-> k, node |-> tag_node]
  ELSE
    LET t == toks[k]
    IN  IF t.type = "OpenTag" /\ eq_ignore_ascii_case(t.name, <<"*">>)
          THEN [i |-> k, node |-> tag_node]
        ELSE IF t.type = "CloseTag" /\ eq_ignore_ascii_case(t.name, <<"l","i","s","t">>)
          THEN [i |-> k, node |-> tag_node]
        ELSE IF t.type = "Text"
          THEN ListItemLoop(s, toks, k + 1, push_child(tag_node, TextNode(as_raw(s, t))))
        ELSE IF t.type = "LineBreak"
          THEN ListItemLoop(s, toks, k + 1, push_child(tag_node, LineBreakNode))
        ELSE IF t.type = "Url"
          THEN ListItemLoop(s, toks, k + 1, push_child(tag_node, AutoUrlNode(as_raw(s, t))))
        ELSE LET r == parse_single_tag(s, toks, k)
             IN  IF r.some
                   THEN ListItemLoop(s, toks, k + r.consumed, push_child(tag_node, r.node))
                 ELSE ListItemLoop(s, toks, k + 1, tag_node)

\* A fold that makes every later entry a child of the first
FoldClosedFlat(closed) ==
  [closed[1] EXCEPT !.children = @ \o Tail(closed)]

\* Folding of the split-off stack segment (parser.rs:324-328)
RECURSIVE FoldClosed(_)
FoldClosed(closed) ==
  IF Len(closed) = 1 THEN closed[1]
  ELSE LET n == Len(closed)
       IN  FoldClosed(Append(SubSeq(closed, 1, n - 2),
                             push_child(closed[n - 1], closed[n])))

\* The results of one arm of the match in parse_tokens
Step(k, st, d) == [panic |-> FALSE, i |-> k, stack |-> st, doc |-> d]
PushStep(k, st, d, node) ==
  Step(k, push_to_stack_or_doc(st, d, node).stack,
          push_to_stack_or_doc(st, d, node).doc)
Panic == [panic |-> TRUE, i |-> 0, stack |-> <<>>, doc |-> <<>>]

\* The verbatim branch of the OpenTag arm (parser.rs:258-288)
VerbatimArm(s, toks, k, st, d, tag_node) ==
  LET start_pos == find_token_end(toks[k])
      remaining == Slice(s, start_pos, Len(s))
      r == tokenize_until_close(remaining, tag_node.name)
  IN  IF r.panic THEN Panic
      ELSE IF r.close_tag # <<>>
        THEN LET close_end == start_pos + Len(r.content) + Len(r.close_tag)
                 node == mark_closed(
                           [push_child(tag_node, TextNode(r.content))
                              EXCEPT !.raw_close = r.close_tag])
             IN  PushStep(skip_tokens_until_pos(toks, k + 1, close_end), st, d, node)
      ELSE Step(k + 1, Append(st, tag_node), d)

\* The OpenTag arm of parse_tokens (parser.rs:144-302) for tokens[k]
OpenTagArm(s, toks, k, st, d, cfg) ==
  LET t == toks[k]
      raw == as_raw(s, t)
      lower_name == to_ascii_lowercase(t.name)
      resolved == resolve(lower_name)
      option == parse_option_resolved(t.arg)
      tag_node == NewTagNode(lower_name, t.name, option, raw)
  IN  IF resolved = NoTag THEN PushStep(k + 1, st, d, TextNode(raw))
      ELSE IF AmbientDepth + Len(st) >= cfg.max_depth
        THEN PushStep(k + 1, st, d, TextNode(raw))
      ELSE IF ~check_ancestors_resolved(st, resolved)
        THEN PushStep(k + 1, st, d, TextNode(raw))
      ELSE IF ~check_required_parents_resolved(st, resolved)
        THEN PushStep(k + 1, st, d, TextNode(raw))
      ELSE IF resolved.option_required /\ option = OptNone
        THEN PushStep(k + 1, st, d, TextNode(raw))
      ELSE IF is_self_closing(resolved)
        THEN IF resolved.name = <<"*">>
               THEN LET r == ListItemLoop(s, toks, k + 1, tag_node)
                    IN  PushStep(r.i, st, d, mark_closed(r.node))
             ELSE PushStep(k + 1, st, d, mark_closed(tag_node))
      ELSE IF is_verbatim(resolved)
        THEN VerbatimArm(s, toks, k, st, d, tag_node)
      ELSE Step(k + 1, Append(st, tag_node), d)

\* The CloseTag arm of parse_tokens (parser.rs:304-338)
CloseTagArm(s, toks, k, st, d) ==
  LET t == toks[k]
      lower_name == to_ascii_lowercase(t.name)
      pos == find_matching_open_tag(st, lower_name)
  IN  IF pos # 0
        THEN LET rest == SubSeq(st, 1, pos - 1)
                 split == SubSeq(st, pos, Len(st))
                 closed == [j \in DOMAIN split |->
                              IF j = 1
                                THEN mark_closed([split[j] EXCEPT !.raw_close = as_raw(s, t)])
                                ELSE mark_closed(split[j])]
             IN  PushStep(k + 1, rest, d, FoldClosed(closed))
      ELSE PushStep(k + 1, st, d, TextNode(as_raw(s, t)))

\* A loop that appends every tag left on the stack to the document
CloseRemainingFlat(st, d) == d \o st

\* The closing at the end of the input with every remaining tag marked closed
RECURSIVE CloseRemainingMarked(_, _)
CloseRemainingMarked(st, d) ==
  IF st = <<>> THEN d
  ELSE LET n == Len(st)
           r == push_to_stack_or_doc(SubSeq(st, 1, n - 1), d, mark_closed(st[n]))
       IN  CloseRemainingMarked(r.stack, r.doc)

\* The loop that closes the tags left on the stack (parser.rs:345-353)
RECURSIVE CloseRemainingLoop(_, _)
CloseRemainingLoop(st, d) ==
  IF st = <<>> THEN d
  ELSE LET n == Len(st)
           r == push_to_stack_or_doc(SubSeq(st, 1, n - 1), d, st[n])
       IN  CloseRemainingLoop(r.stack, r.doc)

-----------------------------------------------------------------------------
(* renderer.rs *)

\* The output is kept as the pieces the renderer writes, in order.  A "lit"
\* piece is text of a format string or push_str literal of renderer.rs
\* (RenderConfig::class_prefix at its default "bbcode"); a "data" piece is
\* text computed from the document.  An HTML entity written by escape_html
\* is one cell.
Lit(cells) == [k |-> "lit", s |-> cells]
Data(cells) == [k |-> "data", s |-> cells]

Amp == "&amp;"
Lt == "&lt;"
Gt == "&gt;"
Quot == "&quot;"
Apos == "&#x27;"

\* escape_html without the arm for the double quote
escape_char_keep_quote(c) ==
  CASE c = "<" -> Lt
    [] c = ">" -> Gt
    [] c = "&" -> Amp
    [] c = "'" -> Apos
    [] OTHER -> c

escape_char(c) ==
  CASE c = "<" -> Lt
    [] c = ">" -> Gt
    [] c = "&" -> Amp
    [] c = "\"" -> Quot
    [] c = "'" -> Apos
    [] OTHER -> c

\* escape_html
escape_html(s) == [k \in DOMAIN s |-> escape_char(s[k])]

DigitSeq == <<"0","1","2","3","4","5","6","7","8","9">>
DigitVal(c) == (CHOOSE k \in DOMAIN DigitSeq : DigitSeq[k] = c) - 1

\* str::parse for an unsigned integer type with the given maximum:
\* an optional "+", then decimal digits; -1 for Err
RECURSIVE ParseDigits(_, _, _)
ParseDigits(s, acc, max) ==
  IF s = <<>> THEN acc
  ELSE IF Head(s) \notin Digits THEN -1
  ELSE IF acc * 10 + DigitVal(Head(s)) > max THEN -1
  ELSE ParseDigits(Tail(s), acc * 10 + DigitVal(Head(s)), max)

ParseUnsigned(s, max) ==
  LET digits == IF s # <<>> /\ Head(s) = "+" THEN Tail(s) ELSE s
  IN  IF digits = <<>> THEN -1 ELSE ParseDigits(digits, 0, max)

U8Max == 255
U16Max == 65535

RECURSIVE FormatNat(_)
FormatNat(n) ==
  IF n < 10 THEN <<DigitSeq[n + 1]>>
  ELSE Append(FormatNat(n \div 10), DigitSeq[(n % 10) + 1])

Min2(a, b) == IF a < b THEN a ELSE b
Max2(a, b) == IF a > b THEN a ELSE b

\* u32::MAX in decimal
U32MaxDigits == <<"4","2","9","4","9","6","7","2","9","5">>

RECURSIVE StripZeros(_)
StripZeros(s) ==
  IF s # <<>> /\ Head(s) = "0" THEN StripZeros(Tail(s)) ELSE s

\* a > b for digit strings of one length
DigitsGreater(a, b) ==
  \E k \in DOMAIN a :
    /\ DigitVal(a[k]) > DigitVal(b[k])
    /\ \A j \in 1..(k - 1) : a[j] = b[j]

\* str::parse::<u32> followed by .min(2000), the only use renderer.rs makes of
\* the value: -1 for Err, 2000 for every value of 2000 or more
ParseU32Min2000(s) ==
  LET digits == IF s # <<>> /\ Head(s) = "+" THEN Tail(s) ELSE s
      sig == StripZeros(digits)
  IN  IF digits = <<>> \/ \E k \in DOMAIN digits : digits[k] \notin Digits THEN -1
      ELSE IF Len(sig) > 10 \/ (Len(sig) = 10 /\ DigitsGreater(sig, U32MaxDigits)) THEN -1
      ELSE IF Len(sig) > 4 THEN 2000
      ELSE IF sig = <<>> THEN 0
      ELSE Min2(ParseDigits(sig, 0, 9999), 2000)

ends_with(s, pat) ==
  Len(pat) <= Len(s) /\ Slice(s, Len(s) - Len(pat), Len(s)) = pat

HexDigits == Digits \cup {"a","b","c","d","e","f","A","B","C","D","E","F"}

VALID_COLORS ==
  {<<"a","l","i","c","e","b","l","u","e">>,
   <<"a","n","t","i","q","u","e","w","h","i","t","e">>,
   <<"a","q","u","a">>,
   <<"a","q","u","a","m","a","r","i","n","e">>,
   <<"a","z","u","r","e">>,
   <<"b","e","i","g","e">>,
   <<"b","i","s","q","u","e">>,
   <<"b","l","a","c","k">>,
   <<"b","l","a","n","c","h","e","d","a","l","m","o","n","d">>,
   <<"b","l","u","e">>,
   <<"b","l","u","e","v","i","o","l","e","t">>,
   <<"b","r","o","w","n">>,
   <<"b","u","r","l","y","w","o","o","d">>,
   <<"c","a","d","e","t","b","l","u","e">>,
   <<"c","h","a","r","t","r","e","u","s","e">>,
   <<"c","h","o","c","o","l","a","t","e">>,
   <<"c","o","r","a","l">>,
   <<"c","o","r","n","f","l","o","w","e","r","b","l","u","e">>,
   <<"c","o","r","n","s","i","l","k">>,
   <<"c","r","i","m","s","o","n">>,
   <<"c","y","a","n">>,
   <<"d","a","r","k","b","l","u","e">>,
   <<"d","a","r","k","c","y","a","n">>,
   <<"d","a","r","k","g","o","l","d","e","n","r","o","d">>,
   <<"d","a","r","k","g","r","a","y">>,
   <<"d","a","r","k","g","r","e","y">>,
   <<"d","a","r","k","g","r","e","e","n">>,
   <<"d","a","r","k","k","h","a","k","i">>,
   <<"d","a","r","k","m","a","g","e","n","t","a">>,
   <<"d","a","r","k","o","l","i","v","e","g","r","e","e","n">>,
   <<"d","a","r","k","o","r","a","n","g","e">>,
   <<"d","a","r","k","o","r","c","h","i","d">>,
   <<"d","a","r","k","r","e","d">>,
   <<"d","a","r","k","s","a","l","m","o","n">>,
   <<"d","a","r","k","s","e","a","g","r","e","e","n">>,
   <<"d","a","r","k","s","l","a","t","e","b","l","u","e">>,
   <<"d","a","r","k","s","l","a","t","e","g","r","a","y">>,
   <<"d","a","r","k","s","l","a","t","e","g","r","e","y">>,
   <<"d","a","r","k","t","u","r","q","u","o","i","s","e">>,
   <<"d","a","r","k","v","i","o","l","e","t">>,
   <<"d","e","e","p","p","i","n","k">>,
   <<"d","e","e","p","s","k","y","b","l","u","e">>,
   <<"d","i","m","g","r","a","y">>,
   <<"d","i","m","g","r","e","y">>,
   <<"d","o","d","g","e","r","b","l","u","e">>,
   <<"f","i","r","e","b","r","i","c","k">>,
   <<"f","l","o","r","a","l","w","h","i","t","e">>,
   <<"f","o","r","e","s","t","g","r","e","e","n">>,
   <<"f","u","c","h","s","i","a">>,
   <<"g","a","i","n","s","b","o","r","o">>,
   <<"g","h","o","s","t","w","h","i","t","e">>,
   <<"g","o","l","d">>,
   <<"g","o","l","d","e","n","r","o","d">>,
   <<"g","r","a","y">>,
   <<"g","r","e","y">>,
   <<"g","r","e","e","n">>,
   <<"g","r","e","e","n","y","e","l","l","o","w">>,
   <<"h","o","n","e","y","d","e","w">>,
   <<"h","o","t","p","i","n","k">>,
   <<"i","n","d","i","a","n","r","e","d">>,
   <<"i","n","d","i","g","o">>,
   <<"i","v","o","r","y">>,
   <<"k","h","a","k","i">>,
   <<"l","a","v","e","n","d","e","r">>,
   <<"l","a","v","e","n","d","e","r","b","l","u","s","h">>,
   <<"l","a","w","n","g","r","e","e","n">>,
   <<"l","e","m","o","n","c","h","i","f","f","o","n">>,
   <<"l","i","g","h","t","b","l","u","e">>,
   <<"l","i","g","h","t","c","o","r","a","l">>,
   <<"l","i","g","h","t","c","y","a","n">>,
   <<"l","i","g","h","t","g","o","l","d","e","n","r","o","d","y","e","l","l","o","w">>,
   <<"l","i","g","h","t","g","r","a","y">>,
   <<"l","i","g","h","t","g","r","e","y">>,
   <<"l","i","g","h","t","g","r","e","e","n">>,
   <<"l","i","g","h","t","p","i","n","k">>,
   <<"l","i","g","h","t","s","a","l","m","o","n">>,
   <<"l","i","g","h","t","s","e","a","g","r","e","e","n">>,
   <<"l","i","g","h","t","s","k","y","b","l","u","e">>,
   <<"l","i","g","h","t","s","l","a","t","e","g","r","a","y">>,
   <<"l","i","g","h","t","s","l","a","t","e","g","r","e","y">>,
   <<"l","i","g","h","t","s","t","e","e","l","b","l","u","e">>,
   <<"l","i","g","h","t","y","e","l","l","o","w">>,
   <<"l","i","m","e">>,
   <<"l","i","m","e","g","r","e","e","n">>,
   <<"l","i","n","e","n">>,
   <<"m","a","g","e","n","t","a">>,
   <<"m","a","r","o","o","n">>,
   <<"m","e","d","i","u","m","a","q","u","a","m","a","r","i","n","e">>,
   <<"m","e","d","i","u","m","b","l","u","e">>,
   <<"m","e","d","i","u","m","o","r","c","h","i","d">>,
   <<"m","e","d","i","u","m","p","u","r","p","l","e">>,
   <<"m","e","d","i","u","m","s","e","a","g","r","e","e","n">>,
   <<"m","e","d","i","u","m","s","l","a","t","e","b","l","u","e">>,
   <<"m","e","d","i","u","m","s","p","r","i","n","g","g","r","e","e","n">>,
   <<"m","e","d","i","u","m","t","u","r","q","u","o","i","s","e">>,
   <<"m","e","d","i","u","m","v","i","o","l","e","t","r","e","d">>,
   <<"m","i","d","n","i","g","h","t","b","l","u","e">>,
   <<"m","i","n","t","c","r","e","a","m">>,
   <<"m","i","s","t","y","r","o","s","e">>,
   <<"m","o","c","c","a","s","i","n">>,
   <<"n","a","v","a","j","o","w","h","i","t","e">>,
   <<"n","a","v","y">>,
   <<"o","l","d","l","a","c","e">>,
   <<"o","l","i","v","e">>,
   <<"o","l","i","v","e","d","r","a","b">>,
   <<"o","r","a","n","g","e">>,
   <<"o","r","a","n","g","e","r","e","d">>,
   <<"o","r","c","h","i","d">>,
   <<"p","a","l","e","g","o","l","d","e","n","r","o","d">>,
   <<"p","a","l","e","g","r","e","e","n">>,
   <<"p","a","l","e","t","u","r","q","u","o","i","s","e">>,
   <<"p","a","l","e","v","i","o","l","e","t","r","e","d">>,
   <<"p","a","p","a","y","a","w","h","i","p">>,
   <<"p","e","a","c","h","p","u","f","f">>,
   <<"p","e","r","u">>,
   <<"p","i","n","k">>,
   <<"p","l","u","m">>,
   <<"p","o","w","d","e","r","b","l","u","e">>,
   <<"p","u","r","p","l","e">>,
   <<"r","e","b","e","c","c","a","p","u","r","p","l","e">>,
   <<"r","e","d">>,
   <<"r","o","s","y","b","r","o","w","n">>,
   <<"r","o","y","a","l","b","l","u","e">>,
   <<"s","a","d","d","l","e","b","r","o","w","n">>,
   <<"s","a","l","m","o","n">>,
   <<"s","a","n","d","y","b","r","o","w","n">>,
   <<"s","e","a","g","r","e","e","n">>,
   <<"s","e","a","s","h","e","l","l">>,
   <<"s","i","e","n","n","a">>,
   <<"s","i","l","v","e","r">>,
   <<"s","k","y","b","l","u","e">>,
   <<"s","l","a","t","e","b","l","u","e">>,
   <<"s","l","a","t","e","g","r","a","y">>,
   <<"s","l","a","t","e","g","r","e","y">>,
   <<"s","n","o","w">>,
   <<"s","p","r","i","n","g","g","r","e","e","n">>,
   <<"s","t","e","e","l","b","l","u","e">>,
   <<"t","a","n">>,
   <<"t","e","a","l">>,
   <<"t","h","i","s","t","l","e">>,
   <<"t","o","m","a","t","o">>,
   <<"t","r","a","n","s","p","a","r","e","n","t">>,
   <<"t","u","r","q","u","o","i","s","e">>,
   <<"v","i","o","l","e","t">>,
   <<"w","h","e","a","t">>,
   <<"w","h","i","t","e">>,
   <<"w","h","i","t","e","s","m","o","k","e">>,
   <<"y","e","l","l","o","w">>,
   <<"y","e","l","l","o","w","g","r","e","e","n">>}

\* is_valid_color
is_valid_color(color) ==
  IF starts_with(color, 0, <<"#">>)
    THEN (Len(color) - 1 = 3 \/ Len(color) - 1 = 6)
         /\ \A k \in 2..Len(color) : color[k] \in HexDigits
  ELSE IF starts_with(color, 0, <<"r","g","b">>)
    THEN \A k \in DOMAIN color :
           is_ascii_alphanumeric(color[k]) \/ color[k] \in {"(", ")", ",", " ", "."}
  ELSE to_ascii_lowercase(color) \in VALID_COLORS

\* is_valid_font
is_valid_font(font) ==
  \A k \in DOMAIN font :
    is_ascii_alphanumeric(font[k]) \/ font[k] \in {" ", "-", "_"}

XenForoPx == <<9, 10, 12, 15, 18, 22, 26>>

\* parse_size: [some |-> FALSE] is None
parse_size(size) ==
  LET n == ParseUnsigned(size, U8Max)
      px == IF ends_with(size, <<"p","x">>)
              THEN ParseUnsigned(Slice(size, 0, Len(size) - 2), U8Max) ELSE -1
      pct == IF ends_with(size, <<"%">>)
               THEN ParseUnsigned(Slice(size, 0, Len(size) - 1), U16Max) ELSE -1
  IN  IF n >= 1 /\ n <= 7 THEN Some(FormatNat(XenForoPx[n]) \o <<"p","x">>)
      ELSE IF n >= 8 /\ n <= 200
        THEN IF n <= 100 THEN Some(FormatNat(n) \o <<"%">>)
             ELSE Some(FormatNat(Min2(n, 36)) \o <<"p","x">>)
      ELSE IF px >= 8 /\ px <= 36 THEN Some(size)
      ELSE IF pct >= 50 /\ pct <= 200 THEN Some(size)
      ELSE None

EventHandlers ==
  {<<"o","n","c","l","i","c","k","=">>, <<"o","n","e","r","r","o","r","=">>, <<"o","n","m","o","u","s","e","o","v","e","r","=">>, <<"o","n","l","o","a","d","=">>, <<"o","n","f","o","c","u","s","=">>, <<"o","n","b","l","u","r","=">>,
   <<"o","n","m","o","u","s","e","d","o","w","n","=">>, <<"o","n","m","o","u","s","e","u","p","=">>, <<"o","n","m","o","u","s","e","e","n","t","e","r","=">>, <<"o","n","m","o","u","s","e","l","e","a","v","e","=">>,
   <<"o","n","k","e","y","d","o","w","n","=">>, <<"o","n","k","e","y","u","p","=">>, <<"o","n","k","e","y","p","r","e","s","s","=">>, <<"o","n","c","h","a","n","g","e","=">>, <<"o","n","i","n","p","u","t","=">>,
   <<"o","n","s","u","b","m","i","t","=">>}

\* str::replace(char::is_whitespace, "")
RemoveWhitespace(s) == SelectSeq(s, NotWhitespace)

\* is_valid_url without the scheme check of lines 889-894
is_valid_url_any_scheme(url, allowed_schemes) ==
  LET lower == to_ascii_lowercase(url)
      lower_for_events == RemoveWhitespace(lower)
  IN  /\ url # <<>>
      /\ ~(\/ starts_with(lower, 0, <<"j","a","v","a","s","c","r","i","p","t",":">>)
           \/ starts_with(lower, 0, <<"d","a","t","a",":">>)
           \/ starts_with(lower, 0, <<"v","b","s","c","r","i","p","t",":">>))
      /\ ~(\/ contains_char(url, "\"") \/ contains_char(url, "'")
           \/ contains_char(url, "<") \/ contains_char(url, ">"))
      /\ \A h \in EventHandlers : ~contains(lower_for_events, h)

\* is_valid_url
is_valid_url(url, allowed_schemes) ==
  LET lower == to_ascii_lowercase(url)
      lower_for_events == RemoveWhitespace(lower)
      colon_pos == FindSub(url, 0, <<":">>)
  IN  /\ url # <<>>
      /\ ~(\/ starts_with(lower, 0, <<"j","a","v","a","s","c","r","i","p","t",":">>)
           \/ starts_with(lower, 0, <<"d","a","t","a",":">>)
           \/ starts_with(lower, 0, <<"v","b","s","c","r","i","p","t",":">>))
      /\ ~(\/ contains_char(url, "\"") \/ contains_char(url, "'")
           \/ contains_char(url, "<") \/ contains_char(url, ">"))
      /\ \A h \in EventHandlers : ~contains(lower_for_events, h)
      /\ (colon_pos # -1 =>
            to_ascii_lowercase(Slice(url, 0, colon_pos)) \in allowed_schemes)

IsX(c) == c = "x" \/ c = "X"

\* parse_dimensions: [some |-> FALSE] is None
parse_dimensions(opt) ==
  LET x_pos == FindCharOrEnd(opt, 0, IsX)
      width == ParseU32Min2000(Slice(opt, 0, x_pos))
      height == ParseU32Min2000(Slice(opt, x_pos + 1, Len(opt)))
      size == ParseU32Min2000(opt)
  IN  IF x_pos < Len(opt)
        THEN IF width = -1 \/ height = -1 THEN [some |-> FALSE]
             ELSE [some |-> TRUE, width |-> width, height |-> height]
      ELSE IF size # -1
        THEN [some |-> TRUE, width |-> size, height |-> size]
      ELSE [some |-> FALSE]

is_scalar(opt) == opt.kind = "Scalar"
is_map(opt) == opt.kind = "Map"

\* render_text that never escapes
render_text_raw(text, cfg) == <<Data(text)>>

\* Renderer::render_text
render_text(text, cfg) ==
  IF cfg.sanitize THEN <<Data(escape_html(text))>> ELSE <<Data(text)>>

\* Renderer::render_auto_url
render_auto_url(url, cfg) ==
  <<Lit(<<"<","a"," ","c","l","a","s","s","=","\"","b","b","c","o","d","e","-","u","r","l","\""," ","h","r","e","f","=","\"">>), Data(escape_html(url)), Lit(<<"\"">>),
    Lit(IF cfg.nofollow_links THEN <<" ","r","e","l","=","\"","n","o","f","o","l","l","o","w","\"">> ELSE <<>>),
    Lit(IF cfg.open_links_in_new_tab THEN <<" ","t","a","r","g","e","t","=","\"","_","b","l","a","n","k","\"">> ELSE <<>>),
    Lit(<<">">>), Data(escape_html(url)), Lit(<<"<","/","a",">">>)>>

\* The width style of render_table, render_table_header, render_table_cell
WidthStyle(opt) ==
  IF is_map(opt) /\ MapHas(opt.map, <<"w","i","d","t","h">>)
    THEN <<Lit(<<" ","s","t","y","l","e","=","\"","w","i","d","t","h",":"," ">>), Data(escape_html(MapGet(opt.map, <<"w","i","d","t","h">>))),
           Lit(<<";","\"">>)>>
    ELSE <<>>

RECURSIVE render_node(_, _)
RECURSIVE render_tag(_, _)
RECURSIVE RenderNodes(_, _)

\* Renderer::render: the loop over the nodes, also Renderer::render_children
RenderNodes(nodes, cfg) ==
  IF nodes = <<>> THEN <<>>
  ELSE render_node(Head(nodes), cfg) \o RenderNodes(Tail(nodes), cfg)

render_children(tag, cfg) == RenderNodes(tag.children, cfg)

\* Renderer::render_as_text, and the broken and unknown branches of render_tag
render_as_text(tag, cfg) ==
  render_text(tag.raw_open, cfg)
  \o render_children(tag, cfg)
  \o (IF tag.raw_close # <<>> THEN render_text(tag.raw_close, cfg) ELSE <<>>)

\* Renderer::render_simple_tag
render_simple_tag(tag, html_tag, cfg) ==
  <<Lit(<<"<">> \o html_tag \o <<">">>)>>
  \o render_children(tag, cfg)
  \o <<Lit(<<"<","/">> \o html_tag \o <<">">>)>>

\* Renderer::render_color
render_color(tag, cfg) ==
  IF is_scalar(tag.option) /\ is_valid_color(tag.option.val)
    THEN <<Lit(<<"<","s","p","a","n"," ","c","l","a","s","s","=","\"","b","b","c","o","d","e","-","c","o","l","o","r","\""," ","s","t","y","l","e","=","\"","c","o","l","o","r",":"," ">>),
           Data(escape_html(tag.option.val)), Lit(<<";","\"",">">>)>>
         \o render_children(tag, cfg) \o <<Lit(<<"<","/","s","p","a","n",">">>)>>
    ELSE render_as_text(tag, cfg)

\* Renderer::render_font
render_font(tag, cfg) ==
  IF is_scalar(tag.option) /\ is_valid_font(tag.option.val)
    THEN <<Lit(<<"<","s","p","a","n"," ","c","l","a","s","s","=","\"","b","b","c","o","d","e","-","f","o","n","t","\""," ","s","t","y","l","e","=","\"","f","o","n","t","-","f","a","m","i","l","y",":"," ">>),
           Data(escape_html(tag.option.val)), Lit(<<";","\"",">">>)>>
         \o render_children(tag, cfg) \o <<Lit(<<"<","/","s","p","a","n",">">>)>>
    ELSE render_as_text(tag, cfg)

\* Renderer::render_size
render_size(tag, cfg) ==
  IF is_scalar(tag.option) /\ parse_size(tag.option.val).some
    THEN <<Lit(<<"<","s","p","a","n"," ","c","l","a","s","s","=","\"","b","b","c","o","d","e","-","s","i","z","e","\""," ","s","t","y","l","e","=","\"","f","o","n","t","-","s","i","z","e",":"," ">>),
           Data(parse_size(tag.option.val).val), Lit(<<";","\"",">">>)>>
         \o render_children(tag, cfg) \o <<Lit(<<"<","/","s","p","a","n",">">>)>>
    ELSE render_as_text(tag, cfg)

\* Renderer::render_url
render_url(tag, cfg) ==
  LET url == IF is_scalar(tag.option) THEN tag.option.val ELSE inner_text(tag)
  IN  IF ~is_valid_url(url, cfg.allowed_schemes) THEN render_as_text(tag, cfg)
      ELSE <<Lit(<<"<","a"," ","c","l","a","s","s","=","\"","b","b","c","o","d","e","-","u","r","l","\""," ","h","r","e","f","=","\"">>), Data(escape_html(url)), Lit(<<"\"">>)>>
           \o (IF cfg.nofollow_links THEN <<Lit(<<" ","r","e","l","=","\"","n","o","f","o","l","l","o","w","\"">>)>> ELSE <<>>)
           \o (IF cfg.open_links_in_new_tab THEN <<Lit(<<" ","t","a","r","g","e","t","=","\"","_","b","l","a","n","k","\"">>)>> ELSE <<>>)
           \o <<Lit(<<">">>)>>
           \o (IF is_scalar(tag.option) THEN render_children(tag, cfg)
               ELSE render_text(url, cfg))
           \o <<Lit(<<"<","/","a",">">>)>>

EmailEventHandlers ==
  {<<"o","n","c","l","i","c","k","=">>, <<"o","n","e","r","r","o","r","=">>, <<"o","n","m","o","u","s","e","o","v","e","r","=">>, <<"o","n","l","o","a","d","=">>, <<"o","n","f","o","c","u","s","=">>}

\* Renderer::render_email
render_email(tag, cfg) ==
  LET email == IF is_scalar(tag.option) THEN tag.option.val ELSE inner_text(tag)
      lower == to_ascii_lowercase(email)
  IN  IF \/ ~contains_char(email, "@")
         \/ contains_char(email, "<") \/ contains_char(email, ">")
         \/ contains_char(email, "\"") \/ contains_char(email, "'")
        THEN render_as_text(tag, cfg)
      ELSE IF \E h \in EmailEventHandlers : contains(lower, h)
        THEN render_as_text(tag, cfg)
      ELSE <<Lit(<<"<","a"," ","c","l","a","s","s","=","\"","b","b","c","o","d","e","-","e","m","a","i","l","\""," ","h","r","e","f","=","\"","m","a","i","l","t","o",":">>), Data(escape_html(email)),
             Lit(<<"\"",">">>)>>
           \o (IF is_scalar(tag.option) THEN render_children(tag, cfg)
               ELSE render_text(email, cfg))
           \o <<Lit(<<"<","/","a",">">>)>>

\* Renderer::render_img
render_img(tag, cfg) ==
  LET url == inner_text(tag)
      opt == tag.option
      dims == IF is_scalar(opt) THEN parse_dimensions(opt.val) ELSE [some |-> FALSE]
      Attr(key, lit) ==
        IF is_map(opt) /\ MapHas(opt.map, key)
          THEN <<Lit(lit), Data(escape_html(MapGet(opt.map, key))), Lit(<<"\"">>)>>
          ELSE <<>>
  IN  IF url = <<>> \/ ~is_valid_url(url, cfg.allowed_schemes)
        THEN render_as_text(tag, cfg)
      ELSE <<Lit(<<"<","i","m","g"," ","c","l","a","s","s","=","\"","b","b","c","o","d","e","-","i","m","g","\""," ","s","r","c","=","\"">>), Data(escape_html(url)), Lit(<<"\"">>)>>
           \o (IF dims.some
                 THEN <<Lit(<<" ","w","i","d","t","h","=","\"">>), Data(FormatNat(dims.width)),
                        Lit(<<"\""," ","h","e","i","g","h","t","=","\"">>), Data(FormatNat(dims.height)), Lit(<<"\"">>)>>
                 ELSE <<>>)
           \o Attr(<<"w","i","d","t","h">>, <<" ","w","i","d","t","h","=","\"">>)
           \o Attr(<<"h","e","i","g","h","t">>, <<" ","h","e","i","g","h","t","=","\"">>)
           \o Attr(<<"a","l","t">>, <<" ","a","l","t","=","\"">>)
           \o <<Lit(<<" ","/",">">>)>>

\* Renderer::render_quote
render_quote(tag, cfg) ==
  <<Lit(<<"<","b","l","o","c","k","q","u","o","t","e"," ","c","l","a","s","s","=","\"","b","b","c","o","d","e","-","q","u","o","t","e","\"">>)>>
  \o (IF is_scalar(tag.option)
        THEN <<Lit(<<" ","d","a","t","a","-","a","u","t","h","o","r","=","\"">>), Data(escape_html(tag.option.val)), Lit(<<"\"">>)>>
        ELSE <<>>)
  \o <<Lit(<<">">>)>>
  \o (IF is_scalar(tag.option)
        THEN <<Lit(<<"<","d","i","v"," ","c","l","a","s","s","=","\"","b","b","c","o","d","e","-","q","u","o","t","e","-","a","u","t","h","o","r","\"",">">>),
               Data(escape_html(tag.option.val)), Lit(<<" ","w","r","o","t","e",":","<","/","d","i","v",">">>)>>
        ELSE <<>>)
  \o <<Lit(<<"<","d","i","v"," ","c","l","a","s","s","=","\"","b","b","c","o","d","e","-","q","u","o","t","e","-","c","o","n","t","e","n","t","\"",">">>)>>
  \o render_children(tag, cfg)
  \o <<Lit(<<"<","/","d","i","v",">","<","/","b","l","o","c","k","q","u","o","t","e",">">>)>>

\* Renderer::render_code
render_code(tag, cfg) ==
  <<Lit(<<"<","p","r","e"," ","c","l","a","s","s","=","\"","b","b","c","o","d","e","-","c","o","d","e","\"">>)>>
  \o (IF is_scalar(tag.option)
        THEN <<Lit(<<" ","d","a","t","a","-","l","a","n","g","u","a","g","e","=","\"">>), Data(escape_html(tag.option.val)), Lit(<<"\"">>)>>
        ELSE <<>>)
  \o <<Lit(<<">","<","c","o","d","e">>)>>
  \o (IF is_scalar(tag.option)
        THEN <<Lit(<<" ","c","l","a","s","s","=","\"","l","a","n","g","u","a","g","e","-">>), Data(escape_html(tag.option.val)), Lit(<<"\"">>)>>
        ELSE <<>>)
  \o <<Lit(<<">">>), Data(escape_html(inner_text(tag))), Lit(<<"<","/","c","o","d","e",">","<","/","p","r","e",">">>)>>

\* Renderer::render_code_with_lang
render_code_with_lang(tag, lang, cfg) ==
  <<Lit(<<"<","p","r","e"," ","c","l","a","s","s","=","\"","b","b","c","o","d","e","-","c","o","d","e","\""," ","d","a","t","a","-","l","a","n","g","u","a","g","e","=","\"">> \o lang
        \o <<"\"",">","<","c","o","d","e"," ","c","l","a","s","s","=","\"","l","a","n","g","u","a","g","e","-">> \o lang \o <<"\"",">">>),
    Data(escape_html(inner_text(tag))), Lit(<<"<","/","c","o","d","e",">","<","/","p","r","e",">">>)>>

\* Renderer::render_icode
render_icode(tag, cfg) ==
  <<Lit(<<"<","c","o","d","e"," ","c","l","a","s","s","=","\"","b","b","c","o","d","e","-","i","c","o","d","e","\"",">">>), Data(escape_html(inner_text(tag))),
    Lit(<<"<","/","c","o","d","e",">">>)>>

\* Renderer::render_plain
render_plain(tag, cfg) == <<Data(escape_html(inner_text(tag)))>>

\* Renderer::render_list
render_list(tag, cfg) ==
  LET opt == tag.option
      is_ordered == is_scalar(opt) /\ opt.val \in {<<"1">>, <<"a">>, <<"A">>, <<"i">>, <<"I">>}
      list_tag == IF is_ordered THEN <<"o","l">> ELSE <<"u","l">>
  IN  <<Lit(<<"<">> \o list_tag \o <<" ","c","l","a","s","s","=","\"","b","b","c","o","d","e","-","l","i","s","t","\"">>)>>
      \o (IF is_scalar(opt) /\ opt.val \in {<<"1">>, <<"a">>, <<"A">>, <<"i">>, <<"I">>}
            THEN <<Lit(<<" ","t","y","p","e","=","\"">> \o opt.val \o <<"\"">>)>>
          ELSE IF is_scalar(opt) /\ opt.val \in {<<"d","i","s","c">>, <<"c","i","r","c","l","e">>, <<"s","q","u","a","r","e">>}
            THEN <<Lit(<<" ","s","t","y","l","e","=","\"","l","i","s","t","-","s","t","y","l","e","-","t","y","p","e",":"," ">> \o opt.val \o <<";","\"">>)>>
          ELSE <<>>)
      \o <<Lit(<<">">>)>>
      \o render_children(tag, cfg)
      \o <<Lit(<<"<","/">> \o list_tag \o <<">">>)>>

\* Renderer::render_list_item
render_list_item(tag, cfg) ==
  <<Lit(<<"<","l","i",">">>)>> \o render_children(tag, cfg) \o <<Lit(<<"<","/","l","i",">">>)>>

\* Renderer::render_align
render_align(tag, align, cfg) ==
  <<Lit(<<"<","d","i","v"," ","c","l","a","s","s","=","\"","b","b","c","o","d","e","-","a","l","i","g","n","\""," ","s","t","y","l","e","=","\"","t","e","x","t","-","a","l","i","g","n",":"," ">> \o align \o <<";","\"",">">>)>>
  \o render_children(tag, cfg) \o <<Lit(<<"<","/","d","i","v",">">>)>>

\* Option<u8>: the scalar option parsed as u8, or the default
ScalarU8Or(opt, default) ==
  IF is_scalar(opt) /\ ParseUnsigned(opt.val, U8Max) # -1
    THEN ParseUnsigned(opt.val, U8Max) ELSE default

\* Renderer::render_indent
render_indent(tag, cfg) ==
  LET level == Min2(ScalarU8Or(tag.option, 1), 5)
      margin == level * 20
  IN  <<Lit(<<"<","d","i","v"," ","c","l","a","s","s","=","\"","b","b","c","o","d","e","-","i","n","d","e","n","t","\""," ","s","t","y","l","e","=","\"","m","a","r","g","i","n","-","l","e","f","t",":"," ">>),
        Data(FormatNat(margin)), Lit(<<"p","x",";","\"",">">>)>>
      \o render_children(tag, cfg) \o <<Lit(<<"<","/","d","i","v",">">>)>>

\* Renderer::render_heading
render_heading(tag, cfg) ==
  LET level == Min2(Max2(ScalarU8Or(tag.option, 1), 1), 6)
      html_level == Min2(level + 1, 6)
  IN  <<Lit(<<"<","h">>), Data(FormatNat(html_level)), Lit(<<" ","c","l","a","s","s","=","\"","b","b","c","o","d","e","-","h","e","a","d","i","n","g","\"",">">>)>>
      \o render_children(tag, cfg)
      \o <<Lit(<<"<","/","h">>), Data(FormatNat(html_level)), Lit(<<">">>)>>

\* Renderer::render_spoiler
render_spoiler(tag, cfg) ==
  <<Lit(<<"<","d","e","t","a","i","l","s"," ","c","l","a","s","s","=","\"","b","b","c","o","d","e","-","s","p","o","i","l","e","r","\"",">","<","s","u","m","m","a","r","y",">">>)>>
  \o (IF is_scalar(tag.option) THEN <<Data(escape_html(tag.option.val))>>
      ELSE <<Lit(<<"S","p","o","i","l","e","r">>)>>)
  \o <<Lit(<<"<","/","s","u","m","m","a","r","y",">","<","d","i","v"," ","c","l","a","s","s","=","\"","s","p","o","i","l","e","r","-","c","o","n","t","e","n","t","\"",">">>)>>
  \o render_children(tag, cfg)
  \o <<Lit(<<"<","/","d","i","v",">","<","/","d","e","t","a","i","l","s",">">>)>>

\* Renderer::render_ispoiler
render_ispoiler(tag, cfg) ==
  <<Lit(<<"<","s","p","a","n"," ","c","l","a","s","s","=","\"","b","b","c","o","d","e","-","i","s","p","o","i","l","e","r","\""," ","o","n","c","l","i","c","k","=","\"","t","h","i","s",".","c","l","a","s","s","L","i","s","t",".","t","o","g","g","l","e","(","'","r","e","v","e","a","l","e","d","'",")","\"",">">>)>>
  \o render_children(tag, cfg) \o <<Lit(<<"<","/","s","p","a","n",">">>)>>

\* Renderer::render_user
render_user(tag, cfg) ==
  IF is_scalar(tag.option)
    THEN <<Lit(<<"<","a"," ","c","l","a","s","s","=","\"","b","b","c","o","d","e","-","u","s","e","r","\""," ","d","a","t","a","-","u","s","e","r","-","i","d","=","\"">>),
           Data(escape_html(tag.option.val)), Lit(<<"\""," ","h","r","e","f","=","\"","#","\"",">","@">>),
           Data(escape_html(inner_text(tag))), Lit(<<"<","/","a",">">>)>>
    ELSE <<Lit(<<"<","s","p","a","n"," ","c","l","a","s","s","=","\"","b","b","c","o","d","e","-","u","s","e","r","\"",">","@">>), Data(escape_html(inner_text(tag))),
           Lit(<<"<","/","s","p","a","n",">">>)>>

\* Renderer::render_table
render_table(tag, cfg) ==
  <<Lit(<<"<","t","a","b","l","e"," ","c","l","a","s","s","=","\"","b","b","c","o","d","e","-","t","a","b","l","e","\"">>)>> \o WidthStyle(tag.option) \o <<Lit(<<">">>)>>
  \o render_children(tag, cfg) \o <<Lit(<<"<","/","t","a","b","l","e",">">>)>>

\* Renderer::render_table_row
render_table_row(tag, cfg) ==
  <<Lit(<<"<","t","r",">">>)>> \o render_children(tag, cfg) \o <<Lit(<<"<","/","t","r",">">>)>>

\* Renderer::render_table_header
render_table_header(tag, cfg) ==
  <<Lit(<<"<","t","h">>)>> \o WidthStyle(tag.option) \o <<Lit(<<">">>)>>
  \o render_children(tag, cfg) \o <<Lit(<<"<","/","t","h",">">>)>>

\* Renderer::render_table_cell
render_table_cell(tag, cfg) ==
  <<Lit(<<"<","t","d">>)>> \o WidthStyle(tag.option) \o <<Lit(<<">">>)>>
  \o render_children(tag, cfg) \o <<Lit(<<"<","/","t","d",">">>)>>

\* Renderer::render_tag
render_tag(tag, cfg) ==
  LET n == tag.name
  IN  IF tag.broken THEN render_as_text(tag, cfg)
      ELSE IF n \in {<<"b">>, <<"b","o","l","d">>} THEN render_simple_tag(tag, <<"s","t","r","o","n","g">>, cfg)
      ELSE IF n \in {<<"i">>, <<"i","t","a","l","i","c">>} THEN render_simple_tag(tag, <<"e","m">>, cfg)
      ELSE IF n \in {<<"u">>, <<"u","n","d","e","r","l","i","n","e">>} THEN render_simple_tag(tag, <<"u">>, cfg)
      ELSE IF n \in {<<"s">>, <<"s","t","r","i","k","e">>, <<"s","t","r","i","k","e","t","h","r","o","u","g","h">>} THEN render_simple_tag(tag, <<"s">>, cfg)
      ELSE IF n = <<"s","u","b">> THEN render_simple_tag(tag, <<"s","u","b">>, cfg)
      ELSE IF n = <<"s","u","p">> THEN render_simple_tag(tag, <<"s","u","p">>, cfg)
      ELSE IF n \in {<<"c","o","l","o","r">>, <<"c","o","l","o","u","r">>} THEN render_color(tag, cfg)
      ELSE IF n = <<"f","o","n","t">> THEN render_font(tag, cfg)
      ELSE IF n = <<"s","i","z","e">> THEN render_size(tag, cfg)
      ELSE IF n \in {<<"u","r","l">>, <<"l","i","n","k">>} THEN render_url(tag, cfg)
      ELSE IF n \in {<<"e","m","a","i","l">>, <<"m","a","i","l">>} THEN render_email(tag, cfg)
      ELSE IF n \in {<<"i","m","g">>, <<"i","m","a","g","e">>} THEN render_img(tag, cfg)
      ELSE IF n = <<"q","u","o","t","e">> THEN render_quote(tag, cfg)
      ELSE IF n = <<"c","o","d","e">> THEN render_code(tag, cfg)
      ELSE IF n \in {<<"i","c","o","d","e">>, <<"c">>, <<"i","n","l","i","n","e">>} THEN render_icode(tag, cfg)
      ELSE IF n = <<"p","h","p">> THEN render_code_with_lang(tag, <<"p","h","p">>, cfg)
      ELSE IF n = <<"h","t","m","l">> THEN render_code_with_lang(tag, <<"h","t","m","l">>, cfg)
      ELSE IF n \in {<<"p","l","a","i","n">>, <<"n","o","p","a","r","s","e">>, <<"n","o","b","b","c">>} THEN render_plain(tag, cfg)
      ELSE IF n = <<"l","i","s","t">> THEN render_list(tag, cfg)
      ELSE IF n \in {<<"*">>, <<"l","i">>} THEN render_list_item(tag, cfg)
      ELSE IF n = <<"l","e","f","t">> THEN render_align(tag, <<"l","e","f","t">>, cfg)
      ELSE IF n = <<"c","e","n","t","e","r">> THEN render_align(tag, <<"c","e","n","t","e","r">>, cfg)
      ELSE IF n = <<"r","i","g","h","t">> THEN render_align(tag, <<"r","i","g","h","t">>, cfg)
      ELSE IF n = <<"j","u","s","t","i","f","y">> THEN render_align(tag, <<"j","u","s","t","i","f","y">>, cfg)
      ELSE IF n = <<"i","n","d","e","n","t">> THEN render_indent(tag, cfg)
      ELSE IF n \in {<<"h","e","a","d","i","n","g">>, <<"h">>} THEN render_heading(tag, cfg)
      ELSE IF n = <<"h","r">> THEN <<Lit(<<"<","h","r"," ","/",">">>)>>
      ELSE IF n = <<"b","r">> THEN <<Lit(<<"<","b","r"," ","/",">">>)>>
      ELSE IF n = <<"s","p","o","i","l","e","r">> THEN render_spoiler(tag, cfg)
      ELSE IF n = <<"i","s","p","o","i","l","e","r">> THEN render_ispoiler(tag, cfg)
      ELSE IF n \in {<<"u","s","e","r">>, <<"m","e","m","b","e","r">>} THEN render_user(tag, cfg)
      ELSE IF n = <<"t","a","b","l","e">> THEN render_table(tag, cfg)
      ELSE IF n = <<"t","r">> THEN render_table_row(tag, cfg)
      ELSE IF n = <<"t","h">> THEN render_table_header(tag, cfg)
      ELSE IF n = <<"t","d">> THEN render_table_cell(tag, cfg)
      ELSE render_as_text(tag, cfg)

\* Renderer::render_node
render_node(node, cfg) ==
  CASE node.kind = "Text" -> render_text(node.text, cfg)
    [] node.kind = "LineBreak" ->
         IF cfg.convert_linebreaks THEN <<Lit(<<"<","b","r"," ","/",">">>)>> ELSE <<Lit(<<LF>>)>>
    [] node.kind = "AutoUrl" -> render_auto_url(node.text, cfg)
    [] node.kind = "Tag" -> render_tag(node, cfg)

\* Renderer::render
render(document, cfg) == RenderNodes(document, cfg)

-----------------------------------------------------------------------------
(* lib.rs: parse_with_config as a state machine *)

\* ParserConfig::max_depth and ParserConfig::auto_link, and the RenderConfig
\* fields
DefaultConfig ==
  [max_depth |-> MAX_NESTING_DEPTH,
   auto_link |-> TRUE,
   nofollow_links |-> TRUE,
   open_links_in_new_tab |-> FALSE,
   sanitize |-> TRUE,
   convert_linebreaks |-> TRUE,
   allowed_schemes |-> {<<"h","t","t","p">>, <<"h","t","t","p","s">>, <<"m","a","i","l","t","o">>}]

\* All concatenations of at most n lexemes of L
RECURSIVE Words(_, _)
Words(L, n) ==
  IF n = 0 THEN {<<>>}
  ELSE LET W == Words(L, n - 1) IN W \cup {w \o l : w \in W, l \in L}

\* Inputs that between them produce every kind of token
BaseInputs ==
  {<<"[","b","]","a">> \o <<LF>> \o <<"h","t","t","p",":","/","/","e",".","c"," ","[","/","b","]">>, <<"[","i","]","a","[","/","u","]">>, <<CR, LF>> \o <<"[","h","r","]">>}

InitWith(Inputs, Configs) ==
  /\ input \in Inputs
  /\ config \in Configs
  /\ pc = "start"
  /\ tokens = <<>>
  /\ i = 1
  /\ stack = <<>>
  /\ doc = <<>>
  /\ output = <<>>
  /\ custom_tags = {}

\* Parser::parse, the call of tokenize
Tokenize ==
  /\ pc = "start"
  /\ tokens' = tokenize(input)
  /\ pc' = "parse"
  /\ UNCHANGED <<custom_tags, input, config, i, stack, doc, output>>

\* The effect of one arm of the match in parse_tokens
Apply(r) ==
  IF r.panic
    THEN pc' = "panic" /\ UNCHANGED <<custom_tags, input, config, tokens, i, stack, doc, output>>
    ELSE /\ i' = r.i
         /\ stack' = r.stack
         /\ doc' = r.doc
         /\ UNCHANGED <<custom_tags, input, config, pc, tokens, output>>

AtToken(type) == pc = "parse" /\ i <= Len(tokens) /\ tokens[i].type = type

\* parse_tokens, the Token::Text arm
ParseText ==
  /\ AtToken("Text")
  /\ Apply(PushStep(i + 1, stack, doc, TextNode(as_raw(input, tokens[i]))))

\* parse_tokens, the Token::LineBreak arm
ParseLineBreak ==
  /\ AtToken("LineBreak")
  /\ Apply(PushStep(i + 1, stack, doc, LineBreakNode))

\* parse_tokens, the Token::Url arm
ParseUrl ==
  /\ AtToken("Url")
  /\ Apply(PushStep(i + 1, stack, doc, AutoUrlNode(as_raw(input, tokens[i]))))

\* parse_tokens, the Token::OpenTag arm
ParseOpenTag ==
  /\ AtToken("OpenTag")
  /\ Apply(OpenTagArm(input, tokens, i, stack, doc, config))

\* parse_tokens, the Token::CloseTag arm
ParseCloseTag ==
  /\ AtToken("CloseTag")
  /\ Apply(CloseTagArm(input, tokens, i, stack, doc))

\* parse_tokens after the last token: the remaining open tags go to the document
CloseRemaining ==
  /\ pc = "parse"
  /\ i > Len(tokens)
  /\ doc' = CloseRemainingLoop(stack, doc)
  /\ stack' = <<>>
  /\ pc' = "render"
  /\ UNCHANGED <<custom_tags, input, config, tokens, i, output>>

\* Renderer::render
Render ==
  /\ pc = "render"
  /\ output' = render(doc, config)
  /\ pc' = "done"
  /\ UNCHANGED <<custom_tags, input, config, tokens, i, stack, doc>>

Next ==
  \/ Tokenize
  \/ ParseText
  \/ ParseLineBreak
  \/ ParseUrl
  \/ ParseOpenTag
  \/ ParseCloseTag
  \/ CloseRemaining
  \/ Render

\* The output as one string
RECURSIVE Flat(_)
Flat(pieces) == IF pieces = <<>> THEN <<>> ELSE Head(pieces).s \o Flat(Tail(pieces))

\* The tag nodes of a document with their ancestors: <<ancestors, node>>,
\* ancestors outermost first
RECURSIVE TagNodesUnder(_, _)
TagNodesUnder(nodes, ancestors) ==
  IF nodes = <<>> THEN {}
  ELSE LET n == Head(nodes)
       IN  (IF n.kind = "Tag"
              THEN {<<ancestors, n>>} \cup TagNodesUnder(n.children, Append(ancestors, n))
              ELSE {})
           \cup TagNodesUnder(Tail(nodes), ancestors)

TagNodes(d) == TagNodesUnder(d, <<>>)

\* The canonical name of a node's tag
Canonical(node) == resolve(node.name).name

Parsed == pc \in {"render", "done"}
Done == pc = "done"

-----------------------------------------------------------------------------
(* The inputs and configurations explored *)

MaxNestLexemes == 4
MaxTreeLexemes == 3
MaxVerbatimLexemes == 4
MaxUrlParts == 2

\* Open and close tags of inline tags around a text
NestLexemes == {<<"[","b","]">>, <<"[","i","]">>, <<"[","u","r","l","]">>, <<"t">>, <<"[","/","b","]">>, <<"[","/","u","r","l","]">>}

NestInputs == BaseInputs \cup Words(NestLexemes, MaxNestLexemes)

Init == InitWith(NestInputs, {DefaultConfig})

Spec == Init /\ [][Next]_vars

\* Tags with forbidden ancestors or required parents, list items, two depths,
\* auto-linking on and off
TreeLexemes ==
  {<<"[","l","i","n","k","]">>, <<"[","u","r","l","]">>, <<"[","m","a","i","l","]">>, <<"[","l","i","s","t","]">>, <<"[","*","]">>, <<"[","t","d","]">>, <<"[","b","]">>, <<"t">>, <<"[","/","l","i","s","t","]">>}

TreeInputs == BaseInputs \cup Words(TreeLexemes, MaxTreeLexemes)

SmallDepth == 2

TreeConfigs ==
  {DefaultConfig,
   [DefaultConfig EXCEPT !.max_depth = SmallDepth],
   [DefaultConfig EXCEPT !.auto_link = FALSE]}

InitTree == InitWith(TreeInputs, TreeConfigs)

SpecTree == InitTree /\ [][Next]_vars

\* Verbatim tags, tags inside them, characters whose lowercase has another
\* length, list items
VerbatimLexemes ==
  {<<"[","c","o","d","e","]">>, <<"[","/","c","o","d","e","]">>, <<"[","/","C","O","D","E","]">>, <<"[","b","]">>, <<CapIDot, Cont>>, <<Kelvin, Cont, Cont>>,
   <<"a">>, <<"[","l","i","s","t","]","[","*","]">>}

\* A close tag text inside the quoted or unquoted argument of a tag
StraddleInputs ==
  {<<"[","c","o","d","e","]","[","b","=","\"","[","/","c","o","d","e","]","x","\"","]","y">>, <<"[","c","o","d","e","]","[","b","=","[","/","c","o","d","e","]","y">>, <<"[","c","o","d","e","]","a","[","u","r","l","=","'","[","/","c","o","d","e","]","'","]","b","[","/","u","r","l","]">>}

VerbatimInputs == BaseInputs \cup Words(VerbatimLexemes, MaxVerbatimLexemes) \cup StraddleInputs

InitVerbatim == InitWith(VerbatimInputs, {DefaultConfig})

SpecVerbatim == InitVerbatim /\ [][Next]_vars

\* Payloads for URLs, options and text: schemes, control characters, event
\* handlers, the characters escape_html replaces
UrlParts ==
  {<<"J","a","V","a","S","c","R","i","P","t",":">>, <<Ctl>>, <<"j","a","v","a">> \o <<Ctl>> \o <<"s","c","r","i","p","t",":">>, <<"d","a","t","a",":">>, <<"v","b","s","c","r","i","p","t",":">>,
   <<"h","t","t","p",":","/","/","e",".","c","/">>, <<" ","o","n","c","l","i","c","k","=","a">>, <<"a", "\"">>, <<"'">>, <<"<","&",">">>, <<"a","@","b">>}

Payloads == Words(UrlParts, MaxUrlParts)

\* The places a payload is put in
Wrap(p) ==
  {p,
   <<"[","u","r","l","=">> \o p \o <<"]","t","[","/","u","r","l","]">>,
   <<"[","u","r","l","]">> \o p \o <<"[","/","u","r","l","]">>,
   <<"[","i","m","g","]">> \o p \o <<"[","/","i","m","g","]">>,
   <<"[","e","m","a","i","l","]">> \o p \o <<"[","/","e","m","a","i","l","]">>,
   <<"[","q","u","o","t","e","=">> \o p \o <<"]","t","[","/","q","u","o","t","e","]">>,
   <<"[","i","s","p","o","i","l","e","r","]">> \o p \o <<"[","/","i","s","p","o","i","l","e","r","]">>,
   <<"[","c","o","d","e","]">> \o p \o <<"[","/","c","o","d","e","]">>}

RenderInputs == BaseInputs \cup UNION {Wrap(p) : p \in Payloads}

RenderConfigs ==
  {DefaultConfig,
   [DefaultConfig EXCEPT !.sanitize = FALSE],
   [DefaultConfig EXCEPT !.allowed_schemes = {<<"h","t","t","p","s">>}]}

InitRender == InitWith(RenderInputs, RenderConfigs)

SpecRender == InitRender /\ [][Next]_vars

-----------------------------------------------------------------------------
(* Properties of the output *)

Specials == {"<", ">", "&", "\"", "'"}

\* The values of the attributes written as attr (a name, "=" and the opening
\* quote): the text from there to the next quote
AttrValues(flat, attr) ==
  {Slice(flat, p + Len(attr), FindCharOrEnd(flat, p + Len(attr), LAMBDA c : c = "\"")) :
     p \in {q \in 0..(Len(flat) - Len(attr)) : starts_with(flat, q, attr)}}

NotAsciiControl(c) == ~is_ascii_control(c)
StripControl(s) == SelectSeq(s, NotAsciiControl)

DangerousSchemes == {<<"j","a","v","a","s","c","r","i","p","t",":">>, <<"d","a","t","a",":">>, <<"v","b","s","c","r","i","p","t",":">>}

LinkValues(flat) == AttrValues(flat, <<"h","r","e","f","=","\"">>) \cup AttrValues(flat, <<"s","r","c","=","\"">>)

\* The position (from 1) of the ">" that ends the tag starting at p, a ">"
\* inside a quoted attribute value not counted; Len(s) + 1 when there is none
TagEnd(s, p) ==
  LET ends == {q \in p..Len(s) :
                 /\ s[q] = ">"
                 /\ Cardinality({j \in p..(q - 1) : s[j] = "\""}) % 2 = 0}
  IN  IF ends = {} THEN Len(s) + 1 ELSE SetMin(ends)

\* The opening tags of an HTML string, each from its "<" to its ">"
OpeningTags(flat) ==
  {SubSeq(flat, p, Min2(TagEnd(flat, p), Len(flat))) :
     p \in {q \in 1..(Len(flat) - 1) : flat[q] = "<" /\ is_ascii_alphabetic(flat[q + 1])}}

\* Position k of a tag is outside its quoted attribute values
AtAttrLevel(tag, k) ==
  /\ tag[k] # "\""
  /\ Cardinality({j \in 1..(k - 1) : tag[j] = "\""}) % 2 = 0

\* An attribute on*= at the attribute level of an opening tag
HasOnAttr(tag) ==
  LET t == to_ascii_lowercase(tag)
  IN  \E p \in 1..(Len(t) - 3) :
        /\ is_whitespace(t[p]) /\ t[p + 1] = "o" /\ t[p + 2] = "n"
        /\ AtAttrLevel(t, p)
        /\ \E q \in (p + 3)..Len(t) :
             /\ t[q] = "="
             /\ \A k \in (p + 3)..(q - 1) : is_ascii_alphabetic(t[k])

\* The opening tag Renderer::render_ispoiler writes
IspoilerOpen ==
  <<"<","s","p","a","n"," ","c","l","a","s","s","=","\"","b","b","c","o","d","e","-","i","s","p","o","i","l","e","r","\""," ","o","n","c","l","i","c","k","=","\"","t","h","i","s",".","c","l","a","s","s","L","i","s","t",".","t","o","g","g","l","e","(","'","r","e","v","e","a","l","e","d","'",")","\"",">">>

\* Position k of an HTML string is outside its tags: the nearest "<" or ">"
\* before it, if any, is a ">"
OutsideTags(flat, k) ==
  LET brackets == {j \in 1..(k - 1) : flat[j] \in {"<", ">"}}
  IN  brackets = {} \/ flat[CHOOSE m \in brackets : \A x \in brackets : x <= m] = ">"

\* The element name after the "<" at p (from 1), a leading "/" skipped
ElementName(s, p) ==
  LET from == IF p < Len(s) /\ s[p + 1] = "/" THEN p + 1 ELSE p
  IN  Slice(s, from, FindCharOrEnd(s, from, LAMBDA c : ~is_ascii_alphanumeric(c)))

\* The elements renderer.rs writes
Vocabulary ==
  {<<"a">>, <<"s","t","r","o","n","g">>, <<"e","m">>, <<"u">>, <<"s">>, <<"s","u","b">>, <<"s","u","p">>, <<"s","p","a","n">>, <<"i","m","g">>, <<"b","l","o","c","k","q","u","o","t","e">>,
   <<"d","i","v">>, <<"p","r","e">>, <<"c","o","d","e">>, <<"u","l">>, <<"o","l">>, <<"l","i">>, <<"h","2">>, <<"h","3">>, <<"h","4">>, <<"h","5">>, <<"h","6">>, <<"h","r">>,
   <<"b","r">>, <<"d","e","t","a","i","l","s">>, <<"s","u","m","m","a","r","y">>, <<"t","a","b","l","e">>, <<"t","r">>, <<"t","h">>, <<"t","d">>}

\* The scheme of a URL: the text before its first ":", lowercased
HasScheme(x) == FindSub(x, 0, <<":">>) # -1
SchemeOf(x) == to_ascii_lowercase(Slice(x, 0, FindSub(x, 0, <<":">>)))

\* C1: for every input parse returns an output string: no step of the lexer,
\* of the tree builder (the verbatim close-tag scan and the token skipping
\* after it included) or of the renderer aborts or indexes out of range.
C1_NeverPanics == pc # "panic"

\* C2: with sanitize enabled (the default) no href=" or src=" attribute value
\* of the output begins, compared case-insensitively and with the ASCII
\* control characters in it ignored, with javascript:, data: or vbscript:.
C2_NoDangerousLink ==
  (Done /\ config.sanitize) =>
    \A v \in LinkValues(Flat(output)) : \A d \in DangerousSchemes :
      ~starts_with(to_ascii_lowercase(StripControl(v)), 0, d)

\* A link was written whose value holds a dangerous scheme, not at its start
C2_Witness ==
  /\ Done /\ config.sanitize
  /\ \E v \in LinkValues(Flat(output)) :
       contains(to_ascii_lowercase(v), <<"j","a","v","a","s","c","r","i","p","t",":">>)

\* C3 (as stated): no opening tag of the output has an on*= attribute at the
\* attribute level, whichever tag the renderer writes.
C3_NoEventAttribute ==
  (Done /\ config.sanitize) =>
    \A tag \in OpeningTags(Flat(output)) : ~HasOnAttr(tag)

\* C3 (amended): the only opening tag of the output with an on*= attribute at
\* the attribute level is the fixed opening tag render_ispoiler writes; no
\* on*= attribute comes from the input.
C3_OnlyIspoilerHandler ==
  (Done /\ config.sanitize) =>
    \A tag \in OpeningTags(Flat(output)) : HasOnAttr(tag) => tag = IspoilerOpen

\* An opening tag holds onclick= inside a quoted value only
C3_Witness ==
  /\ Done /\ config.sanitize
  /\ \E tag \in OpeningTags(Flat(output)) :
       contains(tag, <<"o","n","c","l","i","c","k","=">>) /\ ~HasOnAttr(tag)

\* C4: with sanitize enabled every "<" of the output starts an element or end
\* tag of the renderer's vocabulary, and the characters < > & " ' of the input
\* appear only as their escapes: no text the renderer computes from the
\* document holds one of them, and none stands outside the tags.
C4_HtmlContainment ==
  (Done /\ config.sanitize) =>
    LET flat == Flat(output)
    IN  /\ \A p \in 1..Len(flat) : flat[p] = "<" => ElementName(flat, p) \in Vocabulary
        /\ \A k \in DOMAIN output :
             output[k].k = "data" => \A c \in Range(output[k].s) : c \notin Specials
        /\ \A p \in 1..Len(flat) :
             flat[p] \in Specials \ {"<"} => ~OutsideTags(flat, p)

\* Special characters of the input were written, as escapes
C4_Witness ==
  /\ Done /\ config.sanitize
  /\ \E c \in Specials : contains_char(input, c)
  /\ \E k \in DOMAIN output :
       output[k].k = "data" /\ {Lt, Amp, Quot} \subseteq Range(output[k].s)

\* C5: for every allowed_schemes list, each <a href="X"> of the output whose X
\* has a scheme has that scheme in allowed_schemes, whether the anchor comes
\* from a url tag, an email tag or an auto-detected URL.
C5_SchemeAllowed ==
  (Done /\ config.sanitize) =>
    \A x \in AttrValues(Flat(output), <<"h","r","e","f","=","\"">>) :
      HasScheme(x) => SchemeOf(x) \in config.allowed_schemes


-----------------------------------------------------------------------------
(* Properties of the tree *)

Last(s) == s[Len(s)]

\* node is the fold of the stack segment seg: the first entry of seg, closed,
\* with the fold of the rest of seg as its last child
RECURSIVE IsFoldOf(_, _)
IsFoldOf(node, seg) ==
  /\ node.kind = "Tag"
  /\ node.name = seg[1].name
  /\ node.raw_open = seg[1].raw_open
  /\ node.closed
  /\ IF Len(seg) = 1 THEN node.children = seg[1].children
     ELSE /\ Len(node.children) = Len(seg[1].children) + 1
          /\ SubSeq(node.children, 1, Len(seg[1].children)) = seg[1].children
          /\ IsFoldOf(Last(node.children), Tail(seg))

\* The step taken at a close tag that matches the stack entry at position p
FoldStep ==
  LET p == find_matching_open_tag(stack, to_ascii_lowercase(tokens[i].name))
      seg == SubSeq(stack, p, Len(stack))
      folded == IF p > 1 THEN Last(stack'[p - 1].children) ELSE Last(doc')
  IN  (AtToken("CloseTag") /\ p # 0) =>
        /\ Len(stack') = p - 1
        /\ IF p > 1
             THEN /\ doc' = doc
                  /\ SubSeq(stack', 1, p - 2) = SubSeq(stack, 1, p - 2)
                  /\ stack'[p - 1] = push_child(stack[p - 1], folded)
             ELSE doc' = Append(doc, folded)
        /\ IsFoldOf(folded, seg)
        /\ folded.raw_close = as_raw(input, tokens[i])

\* The input is [X][Y]t[/X] with X and Y tags of the given kind, no options,
\* and different definitions
IsXYtX(toks, Kind(_)) ==
  /\ Len(toks) = 4
  /\ toks[1].type = "OpenTag" /\ ~toks[1].arg.some
  /\ toks[2].type = "OpenTag" /\ ~toks[2].arg.some
  /\ toks[3].type = "Text"
  /\ toks[4].type = "CloseTag"
  /\ eq_ignore_ascii_case(toks[4].name, toks[1].name)
  /\ Kind(resolve(toks[1].name)) /\ Kind(resolve(toks[2].name))
  /\ resolve(toks[1].name) # resolve(toks[2].name)

IsInline(t) == t # NoTag /\ t.tag_type = "Inline"

SimpleNames == {<<"b">>, <<"i">>, <<"u">>, <<"s">>, <<"s","u","b">>, <<"s","u","p">>}
IsSimple(t) == t # NoTag /\ t.name \in SimpleNames

\* The HTML element of an inline tag written without an option
HtmlOf(t) ==
  CASE t.name = <<"b">> -> <<"s","t","r","o","n","g">>
    [] t.name = <<"i">> -> <<"e","m">>
    [] t.name \in {<<"u">>, <<"s">>, <<"s","u","b">>, <<"s","u","p">>} -> t.name
    [] t.name \in {<<"u","r","l">>, <<"e","m","a","i","l">>} -> <<"a">>
    [] OTHER -> <<"s","p","a","n">>

\* An HTML string with the attributes of its opening tags removed
RECURSIVE StripAttrs(_, _)
StripAttrs(s, p) ==
  IF p > Len(s) THEN <<>>
  ELSE IF s[p] = "<" /\ p < Len(s) /\ is_ascii_alphabetic(s[p + 1])
    THEN <<"<">> \o ElementName(s, p) \o <<">">>
         \o StripAttrs(s, TagEnd(s, p) + 1)
  ELSE <<s[p]>> \o StripAttrs(s, p + 1)

\* <X'><Y'>t</Y'></X'>
Nested(x, y, t) ==
  <<"<">> \o x \o <<">">> \o <<"<">> \o y \o <<">">> \o t \o <<"<","/">> \o y \o <<">">> \o <<"<","/">> \o x \o <<">">>

NestedFor(toks) ==
  Nested(HtmlOf(resolve(toks[1].name)), HtmlOf(resolve(toks[2].name)),
         escape_html(as_raw(input, toks[3])))

\* C6 (as stated): a close tag that matches the stack entry at p removes the
\* entries from p to the top, folds them so that each is the last child of the
\* one opened before it, and attaches the fold to the new top of the stack or
\* to the document; and for [X][Y]t[/X] with X and Y distinct inline tags the
\* output is <X'><Y'>t</Y'></X'>.
C6_InlineNesting ==
  (Done /\ IsXYtX(tokens, IsInline)) => StripAttrs(Flat(output), 1) = NestedFor(tokens)

\* C6 (amended): the fold as stated; and for [X][Y]t[/X] with X and Y distinct
\* tags among b, i, u, s, sub, sup (the tags render_simple_tag renders) the
\* output is <X'><Y'>t</Y'></X'>.
C6_CloseTagFold ==
  /\ [][FoldStep]_vars
  /\ []((Done /\ IsXYtX(tokens, IsSimple)) => Flat(output) = NestedFor(tokens))

\* [b][i]t[/b] was rendered
C6_Witness ==
  /\ Done
  /\ IsXYtX(tokens, IsSimple)
  /\ Len(doc) = 1 /\ doc[1].kind = "Tag" /\ Len(doc[1].children) = 1
  /\ doc[1].children[1].kind = "Tag"

LinkNames == {<<"u","r","l">>, <<"e","m","a","i","l">>}

\* C7: an open tag is literal Text whenever a tag open around it has a
\* canonical name in its forbidden-ancestor list, whichever alias the ancestor
\* was written with and wherever the tag occurs; so in the Document no url or
\* email node is a descendant of a url or email node.
C7_NoLinkInLink ==
  Parsed =>
    \A e \in TagNodes(doc) :
      Canonical(e[2]) \in LinkNames =>
        \A k \in DOMAIN e[1] : Canonical(e[1][k]) \notin LinkNames

\* C8: an open tag whose definition lists required parents is literal Text
\* unless one of them is among its open ancestors, wherever the tag occurs; so
\* in the Document every list item has a list ancestor, every tr a table
\* ancestor and every td or th a tr ancestor.
C8_RequiredParents ==
  Parsed =>
    \A e \in TagNodes(doc) :
      resolve(e[2].name).required_parents # {} =>
        \E k \in DOMAIN e[1] : Canonical(e[1][k]) \in resolve(e[2].name).required_parents

\* C9: for every max_depth, an open tag met when the stack depth plus the
\* ambient depth is at least max_depth is Text, so no tag node of the Document
\* is nested deeper than max_depth, the children of list items included.
C9_DepthBound ==
  Parsed =>
    \A e \in TagNodes(doc) : AmbientDepth + Len(e[1]) + 1 <= config.max_depth

\* C10: a verbatim node that took a close tag has exactly one child, a Text
\* equal to the input between its open tag and that close tag, and is closed:
\* nothing between the two tags is interpreted or dropped, wherever the
\* verbatim tag occurs.
C10_VerbatimContent ==
  Parsed =>
    \A e \in TagNodes(doc) :
      LET n == e[2]
      IN  (is_verbatim(resolve(n.name)) /\ n.raw_close # <<>>) =>
            /\ n.closed
            /\ Len(n.children) = 1
            /\ n.children[1].kind = "Text"
            /\ eq_ignore_ascii_case(n.raw_close, <<"[","/">> \o n.name \o <<"]">>)
            /\ contains(input, n.raw_open \o n.children[1].text \o n.raw_close)


\* The texts of the Text nodes of a document, at every level
RECURSIVE TextsUnder(_)
TextsUnder(nodes) ==
  IF nodes = <<>> THEN {}
  ELSE LET n == Head(nodes)
       IN  (CASE n.kind = "Text" -> {n.text}
              [] n.kind = "Tag" -> TextsUnder(n.children)
              [] OTHER -> {})
           \cup TextsUnder(Tail(nodes))

\* The raw bytes of token k are kept in the document: as the open or close
\* tag of a tag node, or inside a Text node
RawKept(k) ==
  LET raw == as_raw(input, tokens[k])
  IN  \/ \E e \in TagNodes(doc) : e[2].raw_open = raw \/ e[2].raw_close = raw
      \/ \E t \in TextsUnder(doc) : contains(t, raw)

\* An input of one-byte characters
IsAscii(s) == \A k \in DOMAIN s : s[k] \notin {CapIDot, Kelvin, CombDot, Cont}

\* C11: every open-tag or close-tag token either opens or closes a tag node
\* or is kept as literal text with its raw bytes; none is dropped, inside list
\* items and inside tags nested in list items included.  Stated for the
\* inputs of one-byte characters, where a raw slice is the token's own bytes.
C11_NoTokenDiscarded ==
  (Parsed /\ IsAscii(input)) =>
    \A k \in DOMAIN tokens :
      tokens[k].type \in {"OpenTag", "CloseTag"} => RawKept(k)


-----------------------------------------------------------------------------
(* Inputs for the tokenizer *)

MaxLexLexemes == 3

\* Pieces of tags, brackets that start no tag, URLs and punctuation, the
\* characters parse_text stops at, a two-byte character
LexLexemes ==
  {<<"[","b">>, <<"=","[">>, <<"]">>, <<"[","/">>, <<"b","]">>, <<"h">>, <<"h","t","t","p",":","/","/","e">>, <<".">>, <<LF>>, <<CapIDot, Cont>>, <<"=","\"">>, <<" ">>}

LexInputs == BaseInputs \cup Words(LexLexemes, MaxLexLexemes)

InitLex == InitWith(LexInputs, {DefaultConfig})

SpecLex == InitLex /\ [][Next]_vars

\* The raw slices of a token sequence, concatenated in order
RECURSIVE RawConcat(_, _)
RawConcat(s, toks) ==
  IF toks = <<>> THEN <<>>
  ELSE as_raw(s, Head(toks)) \o RawConcat(s, Tail(toks))

IsTagToken(t) == t.type \in {"OpenTag", "CloseTag"}

\* The token that covers the byte at offset p
TokenOver(toks, p) ==
  CHOOSE k \in DOMAIN toks : toks[k].off <= p /\ p < toks[k].off + toks[k].len

\* C12: tokenize returns a token sequence, of at most as many tokens as the
\* input has bytes, whose raw slices concatenated in order are the input:
\* every token is non-empty and starts where the one before it ends.  Every
\* tag token is a tag parse_close_tag or parse_open_tag accepts at its
\* offset, and a "[" at which the tokenizer reads no tag (one that is not
\* inside the option of an open tag) is covered by a Text token.
C12_TokensCoverInput ==
  pc # "start" =>
    /\ RawConcat(input, tokens) = input
    /\ Len(tokens) <= Len(input)
    /\ \A k \in DOMAIN tokens :
         /\ tokens[k].len > 0
         /\ tokens[k].off = (IF k = 1 THEN 0 ELSE tokens[k - 1].off + tokens[k - 1].len)
         /\ IsTagToken(tokens[k]) =>
              (parse_close_tag(input, tokens[k].off).ok \/ parse_open_tag(input, tokens[k].off).ok)
    /\ \A p \in 0..(Len(input) - 1) :
         input[p + 1] = "[" =>
           LET t == tokens[TokenOver(tokens, p)]
           IN  \/ t.type = "Text"
               \/ IsTagToken(t) /\ t.off = p
               \/ t.type = "OpenTag" /\ t.arg.some /\ t.off < p

\* A "[" that starts no tag became text next to a tag token, a URL with
\* punctuation after it was read
C12_Witness ==
  /\ pc # "start"
  /\ \E j, k \in DOMAIN tokens :
       /\ tokens[j].type = "Text" /\ input[tokens[j].off + 1] = "["
       /\ IsTagToken(tokens[k])


\* C12 as stated: the same, with every "[" of the input that starts no tag
\* token covered by a Text token.
C12_EveryBracketText ==
  pc # "start" =>
    /\ RawConcat(input, tokens) = input
    /\ \A p \in 0..(Len(input) - 1) :
         input[p + 1] = "[" =>
           LET t == tokens[TokenOver(tokens, p)]
           IN  t.type = "Text" \/ (IsTagToken(t) /\ t.off = p)


-----------------------------------------------------------------------------
(* Inputs for the size of the output *)

MaxSizeLexemes == 7

\* A short tag with a long HTML form, a character with a long escape
SizeLexemes == {<<"[","q","u","o","t","e","]">>, <<"\"">>}

SizeInputs == BaseInputs \cup Words(SizeLexemes, MaxSizeLexemes)

InitSize == InitWith(SizeInputs, {DefaultConfig})

SpecSize == InitSize /\ [][Next]_vars

\* String::len of an output string.  An entity of escape_html is one cell:
\* &quot; and &#x27; are 6 bytes, &amp; is 5, &lt; and &gt; are 4.
ByteLen(s) ==
  Len(s)
  + 5 * Cardinality({k \in DOMAIN s : s[k] \in {Quot, Apos}})
  + 4 * Cardinality({k \in DOMAIN s : s[k] = Amp})
  + 3 * Cardinality({k \in DOMAIN s : s[k] \in {Lt, Gt}})

\* C13: under the default configuration the output is at most
\* 10 * max(input length, 1) + 100 bytes long, for inputs made of short tags
\* with a long HTML form too.
C13_OutputBounded ==
  (Done /\ config = DefaultConfig) =>
    ByteLen(Flat(output)) <= 10 * Max2(Len(input), 1) + 100


\* No entry of the stack has the name, letter case ignored
NoOpenNamed(st, name) ==
  \A k \in DOMAIN st : to_ascii_lowercase(st[k].name) # to_ascii_lowercase(name)

\* The parser is at a close tag token that matches no tag on the stack
AtUnmatchedClose ==
  /\ pc = "parse"
  /\ i <= Len(tokens)
  /\ tokens[i].type = "CloseTag"
  /\ NoOpenNamed(stack, tokens[i].name)

-----------------------------------------------------------------------------
(* Inputs for the tags left open and the close tags of verbatim tags *)

MaxOpenLexemes == 4

\* Simple tags, a verbatim tag with the close tags of its name and of its
\* aliases, a text
OpenLexemes ==
  {<<"[","b","]">>, <<"[","i","]">>, <<"[","u","]">>, <<"[","p","l","a","i","n","]">>, <<"[","/","p","l","a","i","n","]">>, <<"[","/","n","o","p","a","r","s","e","]">>, <<"[","/","N","O","B","B","C","]">>, <<"t">>}

OpenInputs == BaseInputs \cup Words(OpenLexemes, MaxOpenLexemes)

InitOpen == InitWith(OpenInputs, {DefaultConfig})

SpecOpen == InitOpen /\ [][Next]_vars

\* Parser::parse_tokens from token k on, as one function
RECURSIVE ParseFrom(_, _, _, _, _, _)
ParseFrom(s, toks, k, st, d, cfg) ==
  IF k > Len(toks) THEN [panic |-> FALSE, doc |-> CloseRemainingLoop(st, d)]
  ELSE
    LET t == toks[k]
        r == CASE t.type = "Text" -> PushStep(k + 1, st, d, TextNode(as_raw(s, t)))
               [] t.type = "LineBreak" -> PushStep(k + 1, st, d, LineBreakNode)
               [] t.type = "Url" -> PushStep(k + 1, st, d, AutoUrlNode(as_raw(s, t)))
               [] t.type = "OpenTag" -> OpenTagArm(s, toks, k, st, d, cfg)
               [] t.type = "CloseTag" -> CloseTagArm(s, toks, k, st, d)
    IN  IF r.panic THEN [panic |-> TRUE, doc |-> <<>>]
        ELSE ParseFrom(s, toks, r.i, r.stack, r.doc, cfg)

\* parse_with_config: the output for an input, <<>> when the parser aborts
parse_with_config(s, cfg) ==
  LET r == ParseFrom(s, tokenize(s), 1, <<>>, <<>>, cfg)
  IN  IF r.panic THEN <<>> ELSE Flat(render(r.doc, cfg))

\* node is the nest of the stack st: the first entry of st with the nest of
\* the rest of st as a further, last child
RECURSIVE IsNestOf(_, _)
IsNestOf(node, st) ==
  /\ node.kind = "Tag"
  /\ node.name = st[1].name
  /\ node.raw_open = st[1].raw_open
  /\ node.option = st[1].option
  /\ IF Len(st) = 1 THEN node.children = st[1].children
     ELSE /\ Len(node.children) = Len(st[1].children) + 1
          /\ SubSeq(node.children, 1, Len(st[1].children)) = st[1].children
          /\ IsNestOf(Last(node.children), Tail(st))

\* The step taken after the last token
EndStep ==
  (pc = "parse" /\ pc' = "render") =>
    IF stack = <<>> THEN doc' = doc
    ELSE /\ Len(doc') = Len(doc) + 1
         /\ SubSeq(doc', 1, Len(doc)) = doc
         /\ IsNestOf(Last(doc'), stack)

\* The tokens are open tags of the given kind, without options, and texts,
\* with an open tag among them
IsOpenRun(toks, Kind(_)) ==
  /\ \E k \in DOMAIN toks : toks[k].type = "OpenTag"
  /\ \A k \in DOMAIN toks :
       \/ toks[k].type = "Text"
       \/ toks[k].type = "OpenTag" /\ ~toks[k].arg.some /\ Kind(resolve(toks[k].name))

\* The close tags of the open tags of a run, innermost first
RECURSIVE Closers(_)
Closers(toks) ==
  IF toks = <<>> THEN <<>>
  ELSE Closers(Tail(toks))
       \o (IF Head(toks).type = "OpenTag"
             THEN <<"[", "/">> \o Head(toks).name \o <<"]">> ELSE <<>>)

\* The HTML of a run of simple tags and texts closed in proper order
RECURSIVE NestedRun(_, _)
NestedRun(s, toks) ==
  IF toks = <<>> THEN <<>>
  ELSE IF Head(toks).type = "Text"
    THEN escape_html(as_raw(s, Head(toks))) \o NestedRun(s, Tail(toks))
  ELSE <<"<">> \o HtmlOf(resolve(Head(toks).name)) \o <<">">>
       \o NestedRun(s, Tail(toks))
       \o <<"<", "/">> \o HtmlOf(resolve(Head(toks).name)) \o <<">">>

\* A tag that goes on the stack wherever it is opened without an option
IsStacked(t) ==
  /\ t # NoTag
  /\ ~is_self_closing(t)
  /\ ~t.option_required
  /\ t.required_parents = {}
  /\ t.forbidden_ancestors = {}

\* C15 (as stated): at the end of the input the tags left on the stack are
\* closed innermost first, each the last child of the one opened before it,
\* the outermost appended to the document, their children kept; and a run of
\* unclosed tags renders exactly like the same run closed in proper order.
C15_RunRendersAsClosed ==
  (Done /\ IsOpenRun(tokens, IsStacked)) =>
    Flat(output) = parse_with_config(input \o Closers(tokens), config)

\* C15 (amended): the nesting at the end of the input as stated; and a run of
\* unclosed tags among b, i, u, s, sub, sup with texts renders like the same
\* run closed in proper order: [b][i][u]t gives
\* <strong><em><u>t</u></em></strong>.
C15_EndOfInputNest ==
  /\ [][EndStep]_vars
  /\ []((Done /\ IsOpenRun(tokens, IsSimple)) =>
          /\ Flat(output) = NestedRun(input, tokens)
          /\ Flat(output) = parse_with_config(input \o Closers(tokens), config))

\* Three simple tags left open around a text were rendered
C15_Witness ==
  /\ Done
  /\ IsOpenRun(tokens, IsSimple)
  /\ Len(tokens) = 4 /\ tokens[4].type = "Text"
  /\ Len(doc) = 1 /\ Len(doc[1].children) = 1
  /\ Len(doc[1].children[1].children) = 1
  /\ doc[1].children[1].children[1].children = <<TextNode(as_raw(input, tokens[4]))>>


\* The close tag tokens that name the definition of the open tag token 1
ClosersOfFirst(toks) ==
  {k \in DOMAIN toks :
     toks[k].type = "CloseTag" /\ resolve(toks[k].name) = resolve(toks[1].name)}

\* C16: a verbatim tag is closed by the first close tag after it that names
\* the tag or an alias of its definition ([plain]..[/noparse], [/nobbc]): the
\* node is closed by that close tag and its only child is the Text of the
\* input in between, uninterpreted.
C16_AliasClosesVerbatim ==
  (Parsed /\ tokens # <<>> /\ tokens[1].type = "OpenTag"
     /\ is_verbatim(resolve(tokens[1].name)) /\ ClosersOfFirst(tokens) # {}) =>
    LET k == SetMin(ClosersOfFirst(tokens))
    IN  /\ doc # <<>>
        /\ doc[1].kind = "Tag"
        /\ doc[1].closed
        /\ doc[1].raw_close = as_raw(input, tokens[k])
        /\ doc[1].children =
             <<TextNode(Slice(input, find_token_end(tokens[1]), tokens[k].off))>>


\* The URLs of the AutoUrl nodes of a document, at every level
RECURSIVE AutoUrlsUnder(_)
AutoUrlsUnder(nodes) ==
  IF nodes = <<>> THEN {}
  ELSE LET n == Head(nodes)
       IN  (CASE n.kind = "AutoUrl" -> {n.text}
              [] n.kind = "Tag" -> AutoUrlsUnder(n.children)
              [] OTHER -> {})
           \cup AutoUrlsUnder(Tail(nodes))

\* The values of the href attributes of the output
Hrefs == AttrValues(Flat(output), <<"h","r","e","f","=","\"">>)

\* C17: an AutoUrl node is rendered as an anchor only if its URL passes
\* is_valid_url under the configured schemes; the URL of an AutoUrl node that
\* fails the validator is the href of no anchor of the output.
C17_AutoUrlValidated ==
  Done =>
    \A u \in AutoUrlsUnder(doc) :
      ~is_valid_url(u, config.allowed_schemes) => escape_html(u) \notin Hrefs


\* The shape of an auto-detected URL: the scheme, no whitespace and none of
\* [ ] < >, no punctuation at the end
IsTrimmedUrl(u) ==
  /\ starts_with(u, 0, HttpPrefix) \/ starts_with(u, 0, HttpsPrefix)
  /\ \A k \in DOMAIN u : ~UrlStop(u[k])
  /\ Last(u) \notin UrlPunct

\* C18: every AutoUrl token, and so every AutoUrl node and auto-link href,
\* starts with http:// or https://, has no whitespace and none of [ ] < >,
\* and does not end with one of . , ) ! ? : ; -- the punctuation at the end of
\* the match is not part of the link.
C18_AutoUrlTrimmed ==
  /\ pc # "start" =>
       \A k \in DOMAIN tokens :
         tokens[k].type = "Url" => IsTrimmedUrl(as_raw(input, tokens[k]))
  /\ Done => \A u \in AutoUrlsUnder(doc) : IsTrimmedUrl(u) /\ escape_html(u) \in Hrefs


\* C19: with ParserConfig.auto_link false no AutoUrl node is in the Document
\* and the raw bytes of every AutoUrl token are in a Text node; so the output
\* has no anchor for a bare URL.
C19_AutoLinkOff ==
  (Parsed /\ ~config.auto_link) =>
    /\ AutoUrlsUnder(doc) = {}
    /\ \A k \in DOMAIN tokens :
         tokens[k].type = "Url" =>
           \E t \in TextsUnder(doc) : contains(t, as_raw(input, tokens[k]))


-----------------------------------------------------------------------------
(***************************************************************************)
(* The registry with custom definitions (tags.rs).  custom_tags is the     *)
(* dynamic map of TagRegistry, a set of <<lower-case key, definition>>     *)
(* pairs; the static map is the one TagRegistry::new builds, read through  *)
(* resolve.  The parser of the pipeline above is Parser::new, whose        *)
(* registry has no custom definition.                                      *)
(***************************************************************************)

MaxAliases == 1

\* CustomTagDef: the fields the registry reads, and the tag type
CustomTagDef(name, aliases, tag_type) ==
  [name |-> name, aliases |-> aliases, tag_type |-> tag_type]

RegNames == {<<"b">>, <<"X">>, <<"y">>}
RegAliases == {<<"x">>, <<"y">>, <<"b","o","l","d">>}

RECURSIVE SeqsUpTo(_, _)
SeqsUpTo(S, n) ==
  IF n = 0 THEN {<<>>}
  ELSE LET W == SeqsUpTo(S, n - 1) IN W \cup {Append(w, a) : w \in W, a \in S}

CustomDefs ==
  {CustomTagDef(n, al, "Inline") : n \in RegNames, al \in SeqsUpTo(RegAliases, MaxAliases)}

\* TagRegistry::register_custom, the loop over the aliases
RECURSIVE InsertAliases(_, _, _)
InsertAliases(m, aliases, tag) ==
  IF aliases = <<>> THEN m
  ELSE InsertAliases(MapInsert(m, to_ascii_lowercase(Head(aliases)), tag),
                     Tail(aliases), tag)

\* TagRegistry::register_custom
register_custom(m, tag) ==
  InsertAliases(MapInsert(m, to_ascii_lowercase(tag.name), tag), tag.aliases, tag)

NoResolved == [kind |-> "None", def |-> NoTag]

\* TagRegistry::resolve on a registry with the custom map m
registry_resolve(m, name) ==
  LET lower == to_ascii_lowercase(name)
  IN  IF MapHas(m, lower)
        THEN [kind |-> "Custom", def |-> MapGet(m, lower)]
        ELSE IF resolve(lower) # NoTag
               THEN [kind |-> "Static", def |-> resolve(lower)]
               ELSE NoResolved

InitRegistry ==
  /\ custom_tags = {}
  /\ input = <<>>
  /\ config = DefaultConfig
  /\ pc = "registry"
  /\ tokens = <<>>
  /\ i = 1
  /\ stack = <<>>
  /\ doc = <<>>
  /\ output = <<>>

\* A call of TagRegistry::register_custom
RegisterCustom ==
  /\ pc = "registry"
  /\ \E tag \in CustomDefs : custom_tags' = register_custom(custom_tags, tag)
  /\ UNCHANGED <<input, config, pc, tokens, i, stack, doc, output>>

NextRegistry == RegisterCustom

SpecRegistry == InitRegistry /\ [][NextRegistry]_vars

to_ascii_uppercase_char(c) ==
  IF c \in Range(LowerLetters)
    THEN UpperLetters[CHOOSE k \in DOMAIN LowerLetters : LowerLetters[k] = c]
    ELSE c

to_ascii_uppercase(s) == [k \in DOMAIN s |-> to_ascii_uppercase_char(s[k])]

\* The names and aliases of a definition the registry returned
NamesOf(r) ==
  IF r.kind = "Custom" THEN {r.def.name} \cup Range(r.def.aliases)
  ELSE {r.def.name} \cup r.def.aliases

\* Every key of the two maps
RegistryKeys ==
  {e[1] : e \in custom_tags} \cup UNION {{t.name} \cup t.aliases : t \in STANDARD_TAGS}

\* The definitions the registry can return
Returnable == {registry_resolve(custom_tags, k) : k \in RegistryKeys}

\* C20: after any sequence of register_custom calls, a name with a custom
\* definition resolves to a custom definition, and for every definition the
\* registry can return, its canonical name and each of its aliases, in lower
\* case, in upper case and as written, resolve to that same definition.
C20_AliasesResolveAlike ==
  pc = "registry" =>
    /\ \A e \in custom_tags : registry_resolve(custom_tags, e[1]).kind = "Custom"
    /\ \A r \in Returnable :
         \A n \in NamesOf(r) :
           \A v \in {n, to_ascii_lowercase(n), to_ascii_uppercase(n)} :
             registry_resolve(custom_tags, v) = r


-----------------------------------------------------------------------------
(* Colour and email values *)

ColorValues ==
  {<<"r","e","d">>, <<"R","E","D">>, <<"b","l","u","e">>, <<"t","r","a","n","s","p","a","r","e","n","t">>, <<"T","R","A","N","S","P","A","R","E","N","T">>, <<"T","r","a","n","s","P","a","r","e","n","t">>,
   <<"w","i","n","d","o","w">>, <<"c","a","n","v","a","s">>, <<"a","c","t","i","v","e","b","o","r","d","e","r">>, <<"B","u","t","t","o","n","F","a","c","e">>, <<"#","f","f","f">>, <<"#","f","f","f","f">>, <<"r","g","b","(","1",",","2",",","3",")">>}

EmailValues ==
  {<<"a","@","b">>, <<"a","b">>, <<"a","@","b","\"">>, <<"a","@","b","'">>, <<"a","@","b","<">>, <<"a","@","b",">">>, <<"a","@","b"," ","o","n","c","l","i","c","k","=","x">>, <<"a","@","b"," ","O","N","L","O","A","D","=","x">>,
   <<"a","@","b"," ","o","n","b","l","u","r","=","x">>, <<"a","@","b"," ","O","N","K","E","Y","U","P","=","x">>, <<"a","@","b"," ","o","n","s","u","b","m","i","t","=","x">>, <<"a","@","b",".","c">>}

\* Tags written with an alias, closed with the canonical name and the reverse
AliasInputs == {<<"[","b","o","l","d","]","x","[","/","b","]">>, <<"[","B","O","L","D","]","x","[","/","b","o","l","d","]">>, <<"[","b","]","x","[","/","b","o","l","d","]">>, <<"[","i","]","[","b","o","l","d","]","x","[","/","b","]","y","[","/","i","]">>}

ColorInput(v) == <<"[","c","o","l","o","r","=">> \o v \o <<"]","x","[","/","c","o","l","o","r","]">>

AttrInputs ==
  BaseInputs
  \cup {ColorInput(v) : v \in ColorValues}
  \cup {<<"[","e","m","a","i","l","]">> \o v \o <<"[","/","e","m","a","i","l","]">> : v \in EmailValues}
  \cup {<<"[","e","m","a","i","l","=">> \o v \o <<"]","t","[","/","e","m","a","i","l","]">> : v \in EmailValues}
  \cup AliasInputs

InitAttr == InitWith(AttrInputs, {DefaultConfig})

SpecAttr == InitAttr /\ [][Next]_vars

\* The names the whitelist is said to leave out
ExcludedColors == {<<"t","r","a","n","s","p","a","r","e","n","t">>, <<"w","i","n","d","o","w">>, <<"c","a","n","v","a","s">>, <<"a","c","t","i","v","e","b","o","r","d","e","r">>, <<"b","u","t","t","o","n","f","a","c","e">>}

\* C21: a colour name whose lower-cased form is transparent or a system
\* colour is not accepted: the tag [color=NAME]x[/color] renders as its own
\* text, escaped, and the output holds no style "color: NAME".
C21_TransparentRejected ==
  Done =>
    \A v \in ColorValues :
      (input = ColorInput(v) /\ to_ascii_lowercase(v) \in ExcludedColors) =>
        /\ Flat(output) = escape_html(input)
        /\ ~contains(Flat(output), <<"c","o","l","o","r",":"," ">> \o escape_html(v))

\* The address an email tag node is rendered with
EmailOf(n) == IF is_scalar(n.option) THEN n.option.val ELSE inner_text(n)

\* The condition on an email address: an @, none of < > " ', and none of the
\* event-handler substrings of the URL validator in its lower-cased form
EmailAccepted(email) ==
  /\ contains_char(email, "@")
  /\ ~(\/ contains_char(email, "<") \/ contains_char(email, ">")
       \/ contains_char(email, "\"") \/ contains_char(email, "'"))
  /\ \A h \in EventHandlers : ~contains(to_ascii_lowercase(email), h)

Mailto(email) == <<"m","a","i","l","t","o",":">> \o escape_html(email)

\* C22: the address of an email tag node that lacks an @, or contains one of
\* < > " ', or contains one of the sixteen event-handler substrings in any
\* letter case, is the target of no mailto anchor of the output.
C22_EmailValidated ==
  Done =>
    \A an \in TagNodes(doc) :
      (an[2].name = <<"e","m","a","i","l">> /\ ~EmailAccepted(EmailOf(an[2]))) =>
        Mailto(EmailOf(an[2])) \notin Hrefs


-----------------------------------------------------------------------------
(* One Parser and one Renderer used for several inputs *)

FirstInput == <<"[","b","]","a","[","i","]">>

\* A further call that starts from the Document of the call before
ParseAgainKeepDoc ==
  /\ pc = "done"
  /\ input' \in AttrInputs
  /\ pc' = "start"
  /\ tokens' = <<>>
  /\ i' = 1
  /\ stack' = <<>>
  /\ output' = <<>>
  /\ UNCHANGED <<doc, config, custom_tags>>

\* A further call of parse and render on the same Parser and Renderer: the
\* tokens, the stack, the Document and the output are locals of the call
ParseAgain ==
  /\ pc = "done"
  /\ input' \in AttrInputs
  /\ pc' = "start"
  /\ tokens' = <<>>
  /\ i' = 1
  /\ stack' = <<>>
  /\ doc' = <<>>
  /\ output' = <<>>
  /\ UNCHANGED <<config, custom_tags>>

NextReuse == Next \/ ParseAgain

InitReuse == InitWith({FirstInput}, RenderConfigs)

SpecReuse == InitReuse /\ [][NextReuse]_vars

-----------------------------------------------------------------------------

RECURSIVE OpenChain(_, _)
OpenChain(node, n) ==
  /\ node.kind = "Tag"
  /\ ~node.closed
  /\ node.raw_close = <<>>
  /\ n > 1 => node.children # <<>> /\ OpenChain(Last(node.children), n - 1)

-----------------------------------------------------------------------------
\* C25: the name of every tag node is the canonical name of the definition
\* its written name resolves to, also when the tag is written with an alias;
\* so [/b] closes a tag opened as [bold]: the Document of [bold]x[/b] is one
\* closed tag node.
C25_NameIsCanonical ==
  Parsed =>
    /\ \A an \in TagNodes(doc) : an[2].name = resolve(an[2].raw_name).name
    /\ input = <<"[","b","o","l","d","]","x","[","/","b","]">> =>
         Len(doc) = 1 /\ doc[1].kind = "Tag" /\ doc[1].closed


-----------------------------------------------------------------------------
(* Lists *)

MaxItems == 2

ItemBodies == {<<>>, <<"a">>, <<"[","b","]","x","[","/","b","]">>}
PlainItems == {<<"[","*","]">> \o b : b \in ItemBodies}

ListOf(items) == <<"[","l","i","s","t","]">> \o items \o <<"[","/","l","i","s","t","]">>

\* Items that hold a list of their own
NestingItems ==
  {<<"[","*","]">> \o b \o ListOf(w) : b \in {<<>>, <<"a">>}, w \in Words({<<"[","*","]","a">>, <<"[","*","]">>}, 1)}

\* Well-formed lists of at most MaxItems items, nested at most once
ListInputs == {ListOf(w) : w \in Words(PlainItems \cup NestingItems, MaxItems)}

InitList == InitWith(BaseInputs \cup ListInputs, {DefaultConfig})

SpecList == InitList /\ [][Next]_vars

\* The number of [*] tokens at the level of each list of a token sequence, the
\* lists in the order of their open tags.  open holds, innermost last, the
\* places in counts of the lists not yet closed.
RECURSIVE ItemsPerListTok(_, _, _, _)
ItemsPerListTok(toks, k, open, counts) ==
  IF k > Len(toks) THEN counts
  ELSE
    LET t == toks[k]
    IN  IF t.type = "OpenTag" /\ eq_ignore_ascii_case(t.name, <<"l","i","s","t">>)
          THEN ItemsPerListTok(toks, k + 1, Append(open, Len(counts) + 1), Append(counts, 0))
        ELSE IF t.type = "OpenTag" /\ t.name = <<"*">> /\ open # <<>>
          THEN ItemsPerListTok(toks, k + 1, open,
                               [counts EXCEPT ![Last(open)] = @ + 1])
        ELSE IF t.type = "CloseTag" /\ eq_ignore_ascii_case(t.name, <<"l","i","s","t">>) /\ open # <<>>
          THEN ItemsPerListTok(toks, k + 1, SubSeq(open, 1, Len(open) - 1), counts)
        ELSE ItemsPerListTok(toks, k + 1, open, counts)

IsListItem(n) == n.kind = "Tag" /\ n.name = <<"*">>

\* The number of list-item children of each list node of a document, the
\* lists in document order
RECURSIVE ItemsPerListDoc(_)
ItemsPerListDoc(nodes) ==
  IF nodes = <<>> THEN <<>>
  ELSE LET n == Head(nodes)
       IN  (IF n.kind = "Tag"
              THEN (IF n.name = <<"l","i","s","t">>
                      THEN <<Cardinality({k \in DOMAIN n.children : IsListItem(n.children[k])})>>
                      ELSE <<>>)
                   \o ItemsPerListDoc(n.children)
              ELSE <<>>)
           \o ItemsPerListDoc(Tail(nodes))

\* C26: for a well-formed list, also one whose items hold tags or lists of
\* their own, every list node has as many list-item children as there are
\* [*] tokens at its own level, and every list node is closed by a [/list].
C26_ItemsPerList ==
  (Parsed /\ input \in ListInputs) =>
    /\ ItemsPerListDoc(doc) = ItemsPerListTok(tokens, 1, <<>>, <<>>)
    /\ \A an \in TagNodes(doc) :
         an[2].name = <<"l","i","s","t">> => an[2].closed /\ an[2].raw_close = <<"[","/","l","i","s","t","]">>


-----------------------------------------------------------------------------
\* The input after its first token
AfterFirst == Slice(input, Len(as_raw(input, tokens[1])), Len(input))

\* The input starts with a [plain] tag that has no close tag after it
UnclosedPlain ==
  /\ tokens # <<>>
  /\ tokens[1].type = "OpenTag"
  /\ to_ascii_lowercase(tokens[1].name) = <<"p","l","a","i","n">>
  /\ tokenize_until_close(AfterFirst, <<"p","l","a","i","n">>).close_tag = <<>>

\* C27: after a [plain] tag with no close tag the content is parsed and
\* rendered as ordinary BBCode, its markup kept: the output is the output of
\* the content alone ([plain][b]t gives <strong>t</strong>).
C27_UnclosedVerbatimContent ==
  (Done /\ UnclosedPlain) => Flat(output) = parse_with_config(AfterFirst, config)


-----------------------------------------------------------------------------
\* The node a step has just put in the tree: the last child of the innermost
\* open tag, or the last node of the document
Pushed(st, d) == IF st = <<>> THEN Last(d) ELSE Last(Last(st).children)

\* The step at tokens[i] is the verbatim branch closing its tag: a verbatim
\* open tag whose node goes to the tree, not the stack
VerbatimClosedStep ==
  /\ AtToken("OpenTag")
  /\ is_verbatim(resolve(tokens[i].name))
  /\ pc' = "parse"
  /\ Len(stack') = Len(stack)
  /\ stack' # <<>> \/ doc' # <<>>
  /\ Pushed(stack', doc').kind = "Tag"
  /\ Pushed(stack', doc').raw_open = as_raw(input, tokens[i])

\* The offset just after the close tag of the verbatim node
CloseEnd(node, tok) ==
  find_token_end(tok) + Len(node.children[1].text) + Len(node.raw_close)

\* C28: when the verbatim branch has closed its tag, the next token processed
\* starts at the first byte after the close tag, or the input ends there; so
\* no byte after the close tag is skipped and none before it is processed
\* again, also when the close tag text lies inside a token.
C28_ResumeAfterClose ==
  [][(VerbatimClosedStep /\ IsAscii(input)) =>
       LET close_end == CloseEnd(Pushed(stack', doc'), tokens[i])
       IN  IF i' <= Len(tokens) THEN tokens[i'].off = close_end
           ELSE close_end = Len(input)]_vars


-----------------------------------------------------------------------------
\* The first offset of s at which pat occurs, compared without regard to
\* ASCII case; -1 when there is none
FindAsciiCaseless(s, pat) ==
  LET hits == {p \in 0..(Len(s) - Len(pat)) :
                 eq_ignore_ascii_case(Slice(s, p, p + Len(pat)), pat)}
  IN  IF hits = {} THEN -1 ELSE SetMin(hits)

\* The three regions around the first close tag of tag_name in s
RegionsAtClose(s, tag_name) ==
  LET pat == <<"[","/">> \o tag_name \o <<"]">>
      pos == FindAsciiCaseless(s, pat)
  IN  IF pos = -1
        THEN [panic |-> FALSE, content |-> s, close_tag |-> <<>>, remaining |-> <<>>]
        ELSE [panic |-> FALSE,
              content |-> Slice(s, 0, pos),
              close_tag |-> Slice(s, pos, pos + Len(pat)),
              remaining |-> Slice(s, pos + Len(pat), Len(s))]

\* C29: for the input after a verbatim open tag, non-ASCII text included,
\* tokenize_until_close returns the content before, the text of, and the rest
\* after the first [/tag_name] compared without regard to ASCII case, which
\* together are the input; with no such close tag it returns the whole input
\* as content and an empty close and rest.
C29_UntilCloseRegions ==
  (AtToken("OpenTag") /\ is_verbatim(resolve(tokens[i].name))) =>
    LET remaining == Slice(input, find_token_end(tokens[i]), Len(input))
        tag_name == to_ascii_lowercase(tokens[i].name)
    IN  tokenize_until_close(remaining, tag_name) = RegionsAtClose(remaining, tag_name)


-----------------------------------------------------------------------------
\* C30: no two consecutive tokens of the sequence tokenize returns are both
\* Text, the Text made one character at a time after a failed "[" or a failed
\* "h" included.
C30_NoAdjacentText ==
  pc # "start" =>
    \A k \in 1..(Len(tokens) - 1) :
      ~(tokens[k].type = "Text" /\ tokens[k + 1].type = "Text")

\* A Text token holds a failed "h", a failed "[" after it and further text,
\* and another token follows it
C30_Witness ==
  /\ pc # "start"
  /\ \E k \in 1..(Len(tokens) - 1) :
       /\ tokens[k].type = "Text"
       /\ as_raw(input, tokens[k]) = <<"h","[","b">>

=============
